---- MODULE Spec2Model ----
(***************************************************************************)
(* Fare calculation (src/services/FareCalculationService.ts) as a state    *)
(* machine.  The configuration store (fare_matrix, rental_fares,           *)
(* outstation_fares, outstation_packages, airport_fares, zones), the rides *)
(* table and trip_completions are the state; calculateAndStoreTripFare is  *)
(* split at its awaits into beginTripFare, the four calculate*Fare steps,  *)
(* storeTripCompletion and updateRide.                                     *)
(*                                                                         *)
(* Numbers.  A JavaScript value is a record [k, v]:                        *)
(*   k = "num"    a finite number, v = the number in units of 1/Scale      *)
(*   k = "nan"    NaN                                                      *)
(*   k = "null", "undef", "empty" (''), "text" (non-numeric string such as *)
(*   'abc'), "prefix" (a string such as '12abc' whose numeric prefix is v) *)
(* Floating point is modelled by exact arithmetic on multiples of 1/Scale; *)
(* every product and quotient the model forms is exact at that scale.      *)
(*                                                                         *)
(* Places.  All coordinates lie on the meridian of HOSUR_BUS_STAND         *)
(* (longitude 77.824); a latitude is given by its arc length in km from    *)
(* the equator, so that the haversine distance of two points is the        *)
(* absolute difference of their latitudes.                                 *)
(***************************************************************************)
EXTENDS Integers, Sequences, FiniteSets, TLC

Scale == 20 * 20

\* ------------------------------------------------------------ JS values
Num(n) == [k |-> "num", v |-> n]
R(x) == Num(x * Scale)
NaN == [k |-> "nan", v |-> 0]
Null == [k |-> "null", v |-> 0]
Undef == [k |-> "undef", v |-> 0]
EmptyStr == [k |-> "empty", v |-> 0]
Text == [k |-> "text", v |-> 0]
Prefix(n) == [k |-> "prefix", v |-> n]

\* Number(x), also the implicit conversion of an operand of + - * > <=
ToNumber(x) ==
  CASE x.k = "num" -> x
    [] x.k = "null" -> Num(0)
    [] x.k = "empty" -> Num(0)
    [] OTHER -> NaN

\* parseFloat(x): x is turned into a string first, then its longest numeric
\* prefix is read
parseFloat(x) ==
  CASE x.k = "num" -> x
    [] x.k = "prefix" -> Num(x.v)
    [] OTHER -> NaN

isNaN(x) == ToNumber(x).k = "nan"

IsNumber(x) == x.k = "num"

Truthy(x) ==
  CASE x.k = "num" -> x.v # 0
    [] x.k \in {"text", "prefix"} -> TRUE
    [] OTHER -> FALSE

\* a || b
Or(a, b) == IF Truthy(a) THEN a ELSE b

\* parseFloat(x?.toString() || dflt)
ParseOr(x, dflt) ==
  IF x.k \in {"null", "undef", "empty"} THEN parseFloat(dflt) ELSE parseFloat(x)

Add(a, b) ==
  LET x == ToNumber(a)
      y == ToNumber(b)
  IN IF x.k = "nan" \/ y.k = "nan" THEN NaN ELSE Num(x.v + y.v)

Sub(a, b) ==
  LET x == ToNumber(a)
      y == ToNumber(b)
  IN IF x.k = "nan" \/ y.k = "nan" THEN NaN ELSE Num(x.v - y.v)

Mul(a, b) ==
  LET x == ToNumber(a)
      y == ToNumber(b)
  IN IF x.k = "nan" \/ y.k = "nan" THEN NaN ELSE Num((x.v * y.v) \div Scale)

Half(a) ==
  LET x == ToNumber(a)
  IN IF x.k = "nan" THEN NaN ELSE Num(x.v \div 2)

\* a > b and a <= b; a comparison with NaN is false
Gt(a, b) ==
  LET x == ToNumber(a)
      y == ToNumber(b)
  IN x.k = "num" /\ y.k = "num" /\ x.v > y.v

Le(a, b) ==
  LET x == ToNumber(a)
      y == ToNumber(b)
  IN x.k = "num" /\ y.k = "num" /\ x.v <= y.v

Lt(a, b) ==
  LET x == ToNumber(a)
      y == ToNumber(b)
  IN x.k = "num" /\ y.k = "num" /\ x.v < y.v

\* a === 0
IsZero(a) == a.k = "num" /\ a.v = 0

\* Math.max(0, a)
Max0(a) ==
  LET x == ToNumber(a)
  IN IF x.k = "nan" THEN NaN ELSE IF x.v > 0 THEN x ELSE Num(0)

\* Math.round(a): the nearest integer, a half rounds up
MathRound(a) ==
  LET x == ToNumber(a)
  IN IF x.k = "nan" THEN NaN
     ELSE Num(((2 * x.v + Scale) \div (2 * Scale)) * Scale)

GST_CHARGES == Num(Scale \div 20)
GST_PLATFORM == Num((18 * Scale) \div 100)

\* ------------------------------------------------------------ geometry
\* HOSUR_BUS_STAND.lat = 12.7401984 degrees, as km of arc from the equator
HOSUR_BUS_STAND == 1417

\* calculateDistance of utils/maps (haversine, Earth radius 6371 km), for two
\* points of one meridian: the arc between their latitudes
calculateDistance(lat1, lat2) ==
  Num((IF lat1 >= lat2 THEN lat1 - lat2 ELSE lat2 - lat1) * Scale)

\* zone.name.toLowerCase().includes('inner ring') / ('outer ring')
IncludesInnerRing(name) == name \in {"Inner Ring", "Hosur Inner Ring"}
IncludesOuterRing(name) == name \in {"Outer Ring", "Hosur Outer Ring"}

\* zones?.find(pred): the first element of the array that satisfies pred,
\* as a set of at most one zone
FindInner(zs) ==
  LET hits == {i \in 1..Len(zs) : IncludesInnerRing(zs[i].name)}
  IN IF hits = {} THEN {}
     ELSE {zs[CHOOSE i \in hits : \A j \in hits : i <= j]}

FindOuter(zs) ==
  LET hits == {i \in 1..Len(zs) : IncludesOuterRing(zs[i].name)}
  IN IF hits = {} THEN {}
     ELSE {zs[CHOOSE i \in hits : \A j \in hits : i <= j]}

\* faulty variant: a point on the inner radius is not within the inner ring
WithinInnerTest_Strict(distanceToInnerCenter, innerRadiusKm) ==
  Lt(distanceToInnerCenter, innerRadiusKm)

\* the two ring tests of calculateDeadheadCharges
WithinInnerTest(distanceToInnerCenter, innerRadiusKm) ==
  Le(distanceToInnerCenter, innerRadiusKm)

BeyondOuterTest(distanceToOuterCenter, outerRadiusKm) ==
  Gt(distanceToOuterCenter, outerRadiusKm)

\* faulty variant: the whole distance is charged
DeadheadAmount_Whole(distanceToHosurBusStand, perKmRate) ==
  Mul(distanceToHosurBusStand, perKmRate)

DeadheadAmount(distanceToHosurBusStand, perKmRate) ==
  Mul(Half(distanceToHosurBusStand), perKmRate)

calculateDeadheadCharges(dropLat, perKmRate, zs) ==
  IF FindInner(zs) = {} \/ FindOuter(zs) = {}
  THEN [deadheadCharges |-> Num(0), zoneDetected |-> "Unknown",
        isInnerZone |-> FALSE]
  ELSE
    LET innerZone == CHOOSE z \in FindInner(zs) : TRUE
        outerZone == CHOOSE z \in FindOuter(zs) : TRUE
        innerRadiusKm == ParseOr(innerZone.radius_km, Num(0))
        outerRadiusKm == ParseOr(outerZone.radius_km, Num(0))
        distanceToInnerCenter ==
          calculateDistance(dropLat, innerZone.center_latitude)
        distanceToOuterCenter ==
          calculateDistance(dropLat, outerZone.center_latitude)
    IN IF WithinInnerTest(distanceToInnerCenter, innerRadiusKm)
       THEN [deadheadCharges |-> Num(0), zoneDetected |-> innerZone.name,
             isInnerZone |-> TRUE]
       ELSE IF BeyondOuterTest(distanceToOuterCenter, outerRadiusKm)
       THEN [deadheadCharges |-> Num(0),
             zoneDetected |-> "Beyond Outer Zone", isInnerZone |-> FALSE]
       ELSE [deadheadCharges |->
               DeadheadAmount(calculateDistance(dropLat, HOSUR_BUS_STAND),
                              perKmRate),
             zoneDetected |-> "Between Inner and Outer Ring",
             isInnerZone |-> FALSE]

\* ------------------------------------------------------------ breakdowns
\* the fields of details that an algorithm does not set
NoDetails ==
  [extra_km |-> Undef, base_km_included |-> Undef, per_km_rate |-> Undef,
   per_minute_rate |-> Undef, surge_multiplier |-> Undef,
   platform_fee_flat |-> Undef, zone_detected |-> "", is_inner_zone |-> FALSE,
   days_calculated |-> 0, daily_km_limit |-> Undef, within_allowance |-> "",
   package_name |-> "", slab_limit |-> 0, km_allowance |-> Undef,
   direction |-> ""]

\* what a calculate*Fare call gives back: a breakdown, or the Error it throws
NoFare == [booking_type |-> ""]
Fare(b) == [ok |-> TRUE, error |-> "", fare |-> b]
Throw(msg) == [ok |-> FALSE, error |-> msg, fare |-> NoFare]

\* ------------------------------------------------------------ Regular
baseKmIncluded == 4

\* lines 309-339: the platform fee of the fare-matrix row
ResolvePlatformFee(rawPlatformFee) ==
  LET parseFloatConversion == parseFloat(rawPlatformFee)
      numberConversion == ToNumber(rawPlatformFee)
  IN IF ~isNaN(parseFloatConversion) THEN parseFloatConversion
     ELSE IF ~isNaN(numberConversion) THEN numberConversion
     ELSE IF rawPlatformFee.k = "num" THEN rawPlatformFee
     ELSE R(10)

\* faulty variant: no floor at 0 km
RegularExtraKm_NoFloor(actualDistanceKm) ==
  Sub(actualDistanceKm, R(baseKmIncluded))

RegularExtraKm(actualDistanceKm) ==
  Max0(Sub(actualDistanceKm, R(baseKmIncluded)))

RegularSurge(subtotalBeforeSurge, surgeMultiplier) ==
  Mul(subtotalBeforeSurge, Sub(surgeMultiplier, R(1)))

\* faulty variant: the platform-fee rate applied to the charges
GstOnCharges_PlatformRate(chargesSubtotal) == Mul(chargesSubtotal, GST_PLATFORM)

GstOnCharges(chargesSubtotal) == Mul(chargesSubtotal, GST_CHARGES)

GstOnPlatformFee(platformFee) == Mul(platformFee, GST_PLATFORM)

\* fareMatrices: the first row of the query's result, if it has one
calculateRegularFare(vehicleType, actualDistanceKm, actualDurationMinutes, dropLat, zs, fareMatrices) ==
  IF fareMatrices = {}
  THEN Throw("Fare configuration not found for this vehicle type")
  ELSE
  LET fareMatrix == CHOOSE r \in fareMatrices : TRUE
      platformFee == ResolvePlatformFee(fareMatrix.platform_fee)
      baseFare == Or(ToNumber(fareMatrix.base_fare), Num(0))
      perKmRate == Or(ToNumber(fareMatrix.per_km_rate), Num(0))
      surgeMultiplier == Or(ToNumber(fareMatrix.surge_multiplier), R(1))
      extraKm == RegularExtraKm(actualDistanceKm)
      distanceFare == Mul(extraKm, perKmRate)
      deadheadResult == calculateDeadheadCharges(dropLat, perKmRate, zs)
      deadheadCharges == Or(ToNumber(deadheadResult.deadheadCharges), Num(0))
      subtotalBeforeSurge == Add(Add(baseFare, distanceFare), deadheadCharges)
      surgeCharges == RegularSurge(subtotalBeforeSurge, surgeMultiplier)
      validBaseFare == IF isNaN(baseFare) THEN Num(0) ELSE baseFare
      validDistanceFare == IF isNaN(distanceFare) THEN Num(0) ELSE distanceFare
      validDeadheadCharges ==
        IF isNaN(deadheadCharges) THEN Num(0) ELSE deadheadCharges
      validSurgeCharges == IF isNaN(surgeCharges) THEN Num(0) ELSE surgeCharges
      validPlatformFee == IF isNaN(platformFee) THEN R(10) ELSE platformFee
      chargesSubtotal ==
        Add(Add(Add(validBaseFare, validDistanceFare), validDeadheadCharges),
            validSurgeCharges)
      gstOnCharges == GstOnCharges(chargesSubtotal)
      gstOnPlatformFee == GstOnPlatformFee(validPlatformFee)
      validGstOnCharges == IF isNaN(gstOnCharges) THEN Num(0) ELSE gstOnCharges
      validGstOnPlatformFee ==
        IF isNaN(gstOnPlatformFee) THEN Num(0) ELSE gstOnPlatformFee
      totalFareRaw ==
        Add(Add(Add(Add(Add(Add(validBaseFare, validDistanceFare),
                            validDeadheadCharges), validSurgeCharges),
                    validPlatformFee), validGstOnCharges),
            validGstOnPlatformFee)
  IN Fare(
     [booking_type |-> "regular",
      vehicle_type |-> vehicleType,
      base_fare |-> validBaseFare,
      distance_fare |-> validDistanceFare,
      time_fare |-> Num(0),
      surge_charges |-> validSurgeCharges,
      deadhead_charges |-> validDeadheadCharges,
      platform_fee |-> validPlatformFee,
      gst_on_charges |-> validGstOnCharges,
      gst_on_platform_fee |-> validGstOnPlatformFee,
      extra_km_charges |-> Num(0),
      driver_allowance |-> Num(0),
      total_fare |-> MathRound(totalFareRaw),
      details |->
        [NoDetails EXCEPT
           !.base_km_included = R(baseKmIncluded),
           !.extra_km = extraKm,
           !.per_km_rate = IF isNaN(perKmRate) THEN Num(0) ELSE perKmRate,
           !.surge_multiplier =
             IF isNaN(surgeMultiplier) THEN R(1) ELSE surgeMultiplier,
           !.platform_fee_flat = validPlatformFee,
           !.zone_detected = deadheadResult.zoneDetected,
           !.is_inner_zone = deadheadResult.isInnerZone]])

\* ------------------------------------------------------------ Rental
RentalExtraKm(actualDistanceKm, kmIncluded) ==
  IF Gt(actualDistanceKm, kmIncluded)
  THEN Sub(actualDistanceKm, kmIncluded) ELSE Num(0)

RentalExtraMinutes(actualDurationMinutes, packageMinutes) ==
  IF Gt(actualDurationMinutes, packageMinutes)
  THEN Sub(actualDurationMinutes, packageMinutes) ELSE Num(0)

\* faulty variant: the extra-time charge left out of the total
RentalTotalRaw_NoTime(baseFare, extraKmCharges, extraTimeCharges) ==
  Add(baseFare, extraKmCharges)

RentalTotalRaw(baseFare, extraKmCharges, extraTimeCharges) ==
  Add(Add(baseFare, extraKmCharges), extraTimeCharges)

\* rentalFares: the rows the query gave, at most one (limit 1)
calculateRentalFare(vehicleType, actualDistanceKm, actualDurationMinutes, selectedHours, rentalFares) ==
  IF rentalFares = {} THEN Throw("Rental fare configuration not found")
  ELSE
    LET rentalFare == CHOOSE r \in rentalFares : TRUE
        baseFare == rentalFare.base_fare
        kmIncluded == rentalFare.km_included
        extraKmRate == rentalFare.extra_km_rate
        extraMinuteRate == Or(rentalFare.extra_minute_rate, Num(0))
        extraKm == RentalExtraKm(actualDistanceKm, kmIncluded)
        extraKmCharges ==
          IF Gt(actualDistanceKm, kmIncluded)
          THEN Mul(extraKm, extraKmRate) ELSE Num(0)
        packageMinutes == R(selectedHours * 60)
        extraMinutes == RentalExtraMinutes(actualDurationMinutes, packageMinutes)
        extraTimeCharges ==
          IF Gt(actualDurationMinutes, packageMinutes)
          THEN Mul(extraMinutes, extraMinuteRate) ELSE Num(0)
        withinAllowance == IsZero(extraKmCharges) /\ IsZero(extraTimeCharges)
        totalFareRaw == RentalTotalRaw(baseFare, extraKmCharges, extraTimeCharges)
    IN Fare([booking_type |-> "rental",
             vehicle_type |-> vehicleType,
             base_fare |-> baseFare,
             distance_fare |-> extraKmCharges,
             time_fare |-> extraTimeCharges,
             surge_charges |-> Num(0),
             deadhead_charges |-> Num(0),
             platform_fee |-> Num(0),
             gst_on_charges |-> Num(0),
             gst_on_platform_fee |-> Num(0),
             extra_km_charges |-> extraKmCharges,
             driver_allowance |-> Num(0),
             total_fare |-> MathRound(totalFareRaw),
             details |->
               [NoDetails EXCEPT
                  !.base_km_included = kmIncluded,
                  !.extra_km = extraKm,
                  !.per_km_rate = extraKmRate,
                  !.per_minute_rate = extraMinuteRate,
                  !.within_allowance = IF withinAllowance THEN "true" ELSE "false",
                  !.package_name = rentalFare.package_name]])

\* ------------------------------------------------------------ Outstation
\* Math.max(1, Math.ceil(|now - (scheduledTime or now)| / 24h)); times are
\* whole hours, scheduledTime = <<>> is null
\* faulty variant: the elapsed time is taken with its sign
NumberOfDays_Signed(scheduledTime, now) ==
  LET startTime == IF scheduledTime = <<>> THEN now ELSE scheduledTime[1]
      days == IF now >= startTime THEN (now - startTime + 23) \div 24 ELSE 0
  IN IF days > 1 THEN days ELSE 1

NumberOfDays(scheduledTime, now) ==
  LET startTime == IF scheduledTime = <<>> THEN now ELSE scheduledTime[1]
      durationHours == IF now >= startTime THEN now - startTime
                       ELSE startTime - now
      days == (durationHours + 23) \div 24
  IN IF days > 1 THEN days ELSE 1

\* parseFloat(fareMatrix?.platform_fee?.toString() || '10'); fareMatrix is
\* what .single() gave: the row of a one-row result, else null
OutstationPlatformFee(fareMatrixRows) ==
  IF Cardinality(fareMatrixRows) # 1 THEN parseFloat(R(10))
  ELSE ParseOr((CHOOSE r \in fareMatrixRows : TRUE).platform_fee, R(10))

\* faulty variant: the return leg is not billed
OneWayKmFare_Single(actualDistanceKm, perKmRate) ==
  Mul(actualDistanceKm, perKmRate)

OneWayKmFare(actualDistanceKm, perKmRate) ==
  Mul(Mul(actualDistanceKm, perKmRate), R(2))

SlabLimits == <<10, 20, 30, 40, 50, 60, 70, 80, 90, 100, 110, 120, 130, 140, 150>>

\* faulty variant: a distance equal to a limit falls into the next slab
SelectSlab_Strict(actualDistanceKm) ==
  LET hits == {i \in 1..Len(SlabLimits) : Lt(actualDistanceKm, R(SlabLimits[i]))}
  IN IF hits = {} THEN SlabLimits[Len(SlabLimits)]
     ELSE SlabLimits[CHOOSE i \in hits : \A j \in hits : i <= j]

\* lines 765-771: the first slab whose limit holds the distance, else the last
SelectSlab(actualDistanceKm) ==
  LET hits == {i \in 1..Len(SlabLimits) : Le(actualDistanceKm, R(SlabLimits[i]))}
  IN IF hits = {} THEN SlabLimits[Len(SlabLimits)]
     ELSE SlabLimits[CHOOSE i \in hits : \A j \in hits : i <= j]

SLAB_MAX_KM == 150

\* faulty variant: the slab method is entered up to 200 km
UseSlab_Wider(numberOfDays, actualDistanceKm) ==
  numberOfDays = 1 /\ Le(actualDistanceKm, R(SLAB_MAX_KM + 50))

UseSlab(numberOfDays, actualDistanceKm) ==
  numberOfDays = 1 /\ Le(actualDistanceKm, R(SLAB_MAX_KM))

\* faulty variant: beyond the allowance, the allowance is billed and the whole
\* distance on top of it
RoundTripKmFare_Twice(totalKmTravelled, dailyKmLimit, numberOfDays, perKmRate) ==
  IF Le(totalKmTravelled, Mul(dailyKmLimit, R(numberOfDays)))
  THEN Mul(Mul(dailyKmLimit, R(numberOfDays)), perKmRate)
  ELSE Add(Mul(Mul(dailyKmLimit, R(numberOfDays)), perKmRate),
           Mul(totalKmTravelled, perKmRate))

RoundTripKmFare(totalKmTravelled, dailyKmLimit, numberOfDays, perKmRate) ==
  IF Le(totalKmTravelled, Mul(dailyKmLimit, R(numberOfDays)))
  THEN Mul(Mul(dailyKmLimit, R(numberOfDays)), perKmRate)
  ELSE Mul(totalKmTravelled, perKmRate)

OutstationBreakdown(vehicleType, baseFare, kmFare, extraKmCharges, driverAllowance, platformFee, det) ==
  LET chargesSubtotal == Add(Add(Add(baseFare, kmFare), extraKmCharges),
                             driverAllowance)
      gstOnCharges == GstOnCharges(chargesSubtotal)
      gstOnPlatformFee == GstOnPlatformFee(platformFee)
      totalFareRaw == Add(Add(Add(chargesSubtotal, platformFee), gstOnCharges),
                          gstOnPlatformFee)
  IN [booking_type |-> "outstation",
      vehicle_type |-> vehicleType,
      base_fare |-> baseFare,
      distance_fare |-> kmFare,
      time_fare |-> Num(0),
      surge_charges |-> Num(0),
      deadhead_charges |-> Num(0),
      platform_fee |-> platformFee,
      gst_on_charges |-> gstOnCharges,
      gst_on_platform_fee |-> gstOnPlatformFee,
      extra_km_charges |-> extraKmCharges,
      driver_allowance |-> driverAllowance,
      total_fare |-> MathRound(totalFareRaw),
      details |-> det]

\* outstationFares, slabPackages: the rows of the limit-1 queries (at most
\* one each); fareMatrixRows: the rows the .single() query matched
calculateOutstationFare(vehicleType, actualDistanceKm, actualDurationMinutes, numberOfDays, tripType, outstationFares, slabPackages, fareMatrixRows) ==
  LET platformFee == OutstationPlatformFee(fareMatrixRows)
      outstationConfig == CHOOSE r \in outstationFares : TRUE
      slabPackage == CHOOSE r \in slabPackages : TRUE
  IN
  IF tripType = "one_way" THEN
    IF outstationFares = {} THEN Throw("Outstation fare configuration not found")
    ELSE
      Fare(OutstationBreakdown(vehicleType, outstationConfig.base_fare,
             OneWayKmFare(actualDistanceKm, outstationConfig.per_km_rate),
             Num(0), Num(0), platformFee,
             [NoDetails EXCEPT
                !.per_km_rate = outstationConfig.per_km_rate,
                !.days_calculated = numberOfDays,
                !.within_allowance = "true",
                !.direction = "one_way"]))
  ELSE IF UseSlab(numberOfDays, actualDistanceKm) /\ slabPackages # {} THEN
    LET limit == SelectSlab(actualDistanceKm)
        slabFare == ParseOr(slabPackage.slab[limit], Num(0))
        extraKm == Max0(Sub(actualDistanceKm, R(limit)))
        extraKmCharges ==
          IF Gt(extraKm, Num(0))
          THEN Mul(extraKm, ParseOr(slabPackage.extra_km_rate, Num(0)))
          ELSE Num(0)
    IN Fare(OutstationBreakdown(vehicleType, slabFare, Num(0), extraKmCharges,
              Num(0), platformFee,
              [NoDetails EXCEPT
                 !.per_km_rate = ParseOr(slabPackage.extra_km_rate, Num(0)),
                 !.days_calculated = 1,
                 !.within_allowance = IF IsZero(extraKm) THEN "true" ELSE "false",
                 !.slab_limit = limit,
                 !.package_name = "Slab",
                 !.extra_km = extraKm,
                 !.base_km_included = R(limit)]))
  ELSE IF outstationFares = {}
  THEN Throw("Outstation fare configuration not found")
  ELSE
    LET baseFare == outstationConfig.base_fare
        perKmRate == outstationConfig.per_km_rate
        dailyKmLimit == outstationConfig.daily_km_limit
        totalKmAllowance == Mul(dailyKmLimit, R(numberOfDays))
        driverAllowance ==
          Mul(R(numberOfDays), outstationConfig.driver_allowance_per_day)
        kmFare == RoundTripKmFare(actualDistanceKm, dailyKmLimit, numberOfDays,
                                  perKmRate)
    IN Fare(OutstationBreakdown(vehicleType, baseFare, kmFare, Num(0),
              driverAllowance, platformFee,
              [NoDetails EXCEPT
                 !.per_km_rate = perKmRate,
                 !.days_calculated = numberOfDays,
                 !.daily_km_limit = dailyKmLimit,
                 !.within_allowance =
                   IF Le(actualDistanceKm, totalKmAllowance) THEN "true"
                   ELSE "false",
                 !.km_allowance = totalKmAllowance]))

\* ------------------------------------------------------------ Airport
\* cityCenter of calculateAirportFare: the same point as HOSUR_BUS_STAND
\* faulty variant: the endpoint farther from the center is taken as the origin
IsHosurToAirport_Reversed(pickupLat, dropLat) ==
  Gt(calculateDistance(pickupLat, HOSUR_BUS_STAND),
     calculateDistance(dropLat, HOSUR_BUS_STAND))

IsHosurToAirport(pickupLat, dropLat) ==
  Lt(calculateDistance(pickupLat, HOSUR_BUS_STAND),
     calculateDistance(dropLat, HOSUR_BUS_STAND))

calculateAirportFare(vehicleType, pickupLat, dropLat, airportFares) ==
  IF airportFares = {} THEN Throw("Airport fare configuration not found")
  ELSE
    LET airportConfig == CHOOSE r \in airportFares : TRUE
        isHosurToAirport == IsHosurToAirport(pickupLat, dropLat)
        fare == IF isHosurToAirport THEN airportConfig.hosur_to_airport_fare
                ELSE airportConfig.airport_to_hosur_fare
    IN Fare([booking_type |-> "airport",
             vehicle_type |-> vehicleType,
             base_fare |-> fare,
             distance_fare |-> Num(0),
             time_fare |-> Num(0),
             surge_charges |-> Num(0),
             deadhead_charges |-> Num(0),
             platform_fee |-> Num(0),
             gst_on_charges |-> Num(0),
             gst_on_platform_fee |-> Num(0),
             extra_km_charges |-> Num(0),
             driver_allowance |-> Num(0),
             total_fare |-> MathRound(fare),
             details |->
               [NoDetails EXCEPT
                  !.per_km_rate = Num(0),
                  !.direction = IF isHosurToAirport THEN "Hosur to Airport"
                                ELSE "Airport to Hosur"]])

\* ------------------------------------------------------------ TripLocationTracker
\* calculateHaversineDistance for two points of one meridian (dLon = 0): the
\* arc between the latitudes, which are held as km of arc
calculateHaversineDistance(lat1, lat2) ==
  IF lat1.k # "num" \/ lat2.k # "num" THEN NaN
  ELSE Num(IF lat1.v >= lat2.v THEN lat1.v - lat2.v ELSE lat2.v - lat1.v)

\* faulty variant: a hop of exactly 0.5 km is counted
IsRealisticHop_Inclusive(distance) == Le(distance, Num(Scale \div 2))

\* line 203: distance < 0.5
IsRealisticHop(distance) == Lt(distance, Num(Scale \div 2))

\* lines 188-208: totalDistanceKm after the loop has run up to index i, where
\* history[i] is locationHistory[i - 1] of the code
RECURSIVE TotalDistanceKm(_, _)
TotalDistanceKm(history, i) ==
  IF i < 2 THEN Num(0)
  ELSE LET sofar == TotalDistanceKm(history, i - 1)
           distance == calculateHaversineDistance(
                         parseFloat(history[i - 1].latitude),
                         parseFloat(history[i].latitude))
       IN IF IsRealisticHop(distance) THEN Add(sofar, distance) ELSE sofar

\* faulty variant: one stored point is taken as enough
NotEnoughPoints_Empty(history) == Len(history) < 1

\* line 181: locationHistory.length < 2
NotEnoughPoints(history) == Len(history) < 2

\* calculateTripDistance once the query has given the history
calculateTripDistance(history) ==
  IF NotEnoughPoints(history)
  THEN [returned |-> TRUE, threw |-> FALSE, distanceKm |-> Num(0),
        pointsUsed |-> 0]
  ELSE [returned |-> TRUE, threw |-> FALSE,
        distanceKm |-> TotalDistanceKm(history, Len(history)),
        pointsUsed |-> Len(history)]

\* ------------------------------------------------------------ state
VARIABLES
  fare_matrix,          \* configuration tables: sets of rows
  rental_fares,
  outstation_fares,
  outstation_packages,
  airport_fares,
  zones,                \* the active zones, in the order the query gives them
  rides,                \* rides table: ride id -> row
  trip_completions,     \* trip_completions table: rows in insertion order
  pc,                   \* where calculateAndStoreTripFare stands
  args,                 \* its arguments
  ride,                 \* the ride row it fetched
  fareBreakdown,        \* the breakdown it computed
  ret,                  \* what it returned
  endTime,              \* the clock reading of calculateOutstationFare, in hours
  slabError,            \* whether its outstation_packages query gave an error
  queried,              \* the tables it has read
  calls,                \* the earlier calls for the ride, as they ended
  trip_location_history,\* trip_location_history table: the points of the
                        \* trip, in the order of their inserts
  locationHistory,      \* what the query of calculateTripDistance gave
  tripDistance,         \* what calculateTripDistance returned
  isTracking,           \* tracker: the flag of the trip (absent reads as false)
  trackingIntervals,    \* tracker: the interval registered for the trip, 0 for none
  intervals,            \* the intervals created by setInterval and not cleared
  locationPoints,       \* tracker: the points of the trip kept in memory
  starts,               \* where each startTripTracking call stands
  recording,            \* the recordLocationPoint calls in flight
  clock,                \* the clock of the device
  lastCall              \* the last of start and stop the caller has made

configVars == <<fare_matrix, rental_fares, outstation_fares,
                outstation_packages, airport_fares, zones>>
outstationVars == <<endTime, slabError>>
lifecycleVars == <<isTracking, trackingIntervals, intervals, starts, recording, lastCall>>
trackerVars == <<trip_location_history, locationHistory, tripDistance, locationPoints, clock, lifecycleVars>>
fareVars == <<fare_matrix, rental_fares, outstation_fares, outstation_packages,
              airport_fares, zones, rides, trip_completions, pc, args, ride,
              fareBreakdown, ret, endTime, slabError, queried, calls>>
vars == <<fare_matrix, rental_fares, outstation_fares, outstation_packages,
          airport_fares, zones, rides, trip_completions, pc, args, ride,
          fareBreakdown, ret, endTime, slabError, queried, calls,
          trip_location_history, locationHistory, tripDistance,
          locationPoints, clock, isTracking, trackingIntervals, intervals,
          starts, recording, lastCall>>

\* ------------------------------------------------------------ queries
\* faulty variant: the rows are ordered by created_at ascending
Freshest_Oldest(rows) == {r \in rows : \A q \in rows : q.created_at >= r.created_at}

\* .eq('is_active', true) and the key filters, then
\* .order('created_at', {ascending: false}): the rows that may come first
Freshest(rows) == {r \in rows : \A q \in rows : q.created_at <= r.created_at}

\* what [0] or .limit(1) leaves of the ordered rows: no row, or one of the
\* rows that may come first
FirstOf(ordered) == IF ordered = {} THEN {{}} ELSE {{r} : r \in ordered}

FareMatrixRows(bookingType, vehicleType) ==
  {r \in fare_matrix : r.booking_type = bookingType
                       /\ r.vehicle_type = vehicleType /\ r.is_active}

\* faulty variant: the rows are not ordered by is_popular
RentalFareRows_Unordered(vehicleType, selectedHours) ==
  {r \in rental_fares : r.vehicle_type = vehicleType
                        /\ r.duration_hours = selectedHours /\ r.is_active}

\* .order('is_popular', {ascending: false}).limit(1)
RentalFareRows(vehicleType, selectedHours) ==
  LET rows == {r \in rental_fares : r.vehicle_type = vehicleType
                                    /\ r.duration_hours = selectedHours
                                    /\ r.is_active}
  IN {r \in rows : \A q \in rows : q.is_popular => r.is_popular}

OutstationFareRows(vehicleType) ==
  Freshest({r \in outstation_fares : r.vehicle_type = vehicleType /\ r.is_active})

\* faulty variant: packages that are not active are used too
SlabPackageRows_AnyStatus(vehicleType) ==
  Freshest({r \in outstation_packages : r.vehicle_type = vehicleType
                                        /\ r.use_slab_system})

SlabPackageRows(vehicleType) ==
  Freshest({r \in outstation_packages : r.vehicle_type = vehicleType
                                        /\ r.is_active /\ r.use_slab_system})

AirportFareRows(vehicleType) ==
  Freshest({r \in airport_fares : r.vehicle_type = vehicleType /\ r.is_active})

\* ------------------------------------------------------------ bounds
MaxDropKm == 12       \* drop points lie 0..MaxDropKm km north of the bus stand
MaxRegularKm == 6     \* Regular trips are 3..MaxRegularKm km long
MaxDays == 3          \* an Outstation trip ends up to MaxDays days after its start
MaxCalls == 2         \* calculateAndStoreTripFare is called up to MaxCalls times
MaxPoints == 3        \* a trip has up to MaxPoints stored location points
MaxStarts == 2        \* startTripTracking is called up to MaxStarts times
MaxClock == 2         \* with up to MaxClock calls in flight and fixes at 1..MaxClock
MaxPosition == 9      \* which lie 0..MaxPosition tenths of a km up the meridian

\* ------------------------------------------------------------ rows
MatrixRow(bookingType, created, base, rate, surge, fee) ==
  [booking_type |-> bookingType, vehicle_type |-> "sedan", is_active |-> TRUE,
   created_at |-> created, base_fare |-> base, per_km_rate |-> rate,
   surge_multiplier |-> surge, platform_fee |-> fee]

RentalRow(hours, popular, name, base, kmIncluded, kmRate, minuteRate) ==
  [vehicle_type |-> "sedan", duration_hours |-> hours, is_active |-> TRUE,
   is_popular |-> popular, package_name |-> name, base_fare |-> base,
   km_included |-> kmIncluded, extra_km_rate |-> kmRate,
   extra_minute_rate |-> minuteRate]

OutstationRow(created, base, rate, allowance, limit) ==
  [vehicle_type |-> "sedan", is_active |-> TRUE, created_at |-> created,
   base_fare |-> base, per_km_rate |-> rate,
   driver_allowance_per_day |-> allowance, daily_km_limit |-> limit]

\* slab_10km .. slab_150km as slab[10] .. slab[150]
SlabRow(created, first, step, kmRate) ==
  [vehicle_type |-> "sedan", is_active |-> TRUE, use_slab_system |-> TRUE,
   created_at |-> created,
   slab |-> [l \in {SlabLimits[i] : i \in 1..Len(SlabLimits)} |->
               R(first + step * (l \div 10))],
   extra_km_rate |-> kmRate]

AirportRow(created, toAirport, toHosur) ==
  [vehicle_type |-> "sedan", is_active |-> TRUE, created_at |-> created,
   hosur_to_airport_fare |-> toAirport, airport_to_hosur_fare |-> toHosur]

Zone(name, center, radius) ==
  [name |-> name, center_latitude |-> center, radius_km |-> radius]

Ride(bookingType, vehicleType, hours, scheduled, tripType) ==
  [booking_type |-> bookingType, vehicle_type |-> vehicleType,
   selected_hours |-> hours, scheduled_time |-> scheduled,
   trip_type |-> tripType, fare_amount |-> Null, distance_km |-> Null,
   duration_minutes |-> Null]

\* ------------------------------------------------------------ stores
StdMatrix == {MatrixRow("regular", 1, R(50), R(10), R(1), R(15)),
              MatrixRow("outstation", 1, R(0), R(0), R(1), R(20))}
StdRental == {RentalRow(4, FALSE, "4hr 40km", R(500), R(40), R(12), R(2))}
StdOutstation == {OutstationRow(1, R(100), R(10), R(300), R(100))}
StdSlabs == {SlabRow(1, 200, 50, R(15))}
StdAirport == {AirportRow(1, R(800), R(900))}
StdZones == <<Zone("Inner Ring", HOSUR_BUS_STAND, R(5)),
              Zone("Outer Ring", HOSUR_BUS_STAND, R(10))>>

Store(matrix, rental, outstation, slabs, airport, zs, rideRow) ==
  [fare_matrix |-> matrix, rental_fares |-> rental,
   outstation_fares |-> outstation, outstation_packages |-> slabs,
   airport_fares |-> airport, zones |-> zs, rides |-> [id \in {"r1"} |-> rideRow]]

Vehicles == {"sedan", "suv"}

\* stored numeric fields as the store may hold them
BaseFares == {R(50), Null, R(0 - 5)}
PerKmRates == {R(10), Text}
SurgeMultipliers == {R(1), Num(Scale + Scale \div 2), Text}
PlatformFees == {R(15), R(0), Null, Undef, EmptyStr, Text, Prefix(12 * Scale)}

ZoneConfigs ==
  {StdZones,
   <<Zone("Outer Ring", HOSUR_BUS_STAND, R(10)),
     Zone("Airport Zone", HOSUR_BUS_STAND + 40, R(3)),
     Zone("Inner Ring", HOSUR_BUS_STAND, R(5))>>,
   <<Zone("Inner Ring", HOSUR_BUS_STAND, R(5))>>,
   <<Zone("Outer Ring", HOSUR_BUS_STAND, R(10))>>,
   <<Zone("Airport Zone", HOSUR_BUS_STAND + 40, R(3))>>,
   <<>>,
   <<Zone("Hosur Inner Ring", HOSUR_BUS_STAND, R(8)),
     Zone("Hosur Outer Ring", HOSUR_BUS_STAND + 10, R(3))>>,
   <<Zone("Inner Ring", HOSUR_BUS_STAND, Null),
     Zone("Outer Ring", HOSUR_BUS_STAND, R(10))>>}

\* a row that is stored but not active, and a row of another vehicle type
Inactive(r) == [r EXCEPT !.is_active = FALSE]
ForSuv(r) == [r EXCEPT !.vehicle_type = "suv"]

RegularStores ==
  {Store({MatrixRow("regular", 1, b, k, m, f)}, StdRental, StdOutstation,
         StdSlabs, StdAirport, StdZones, Ride("regular", v, 0, <<>>, ""))
     : b \in BaseFares, k \in PerKmRates, m \in SurgeMultipliers,
       f \in PlatformFees, v \in Vehicles}
  \cup
  {Store({MatrixRow("regular", 1, R(50), R(10), m, R(15))}, StdRental,
         StdOutstation, StdSlabs, StdAirport, z,
         Ride("regular", "sedan", 0, <<>>, ""))
     : m \in SurgeMultipliers, z \in ZoneConfigs}

RentalStores ==
  {Store(StdMatrix, {RentalRow(4, FALSE, "4hr 40km", b, R(40), k, t)},
         StdOutstation, StdSlabs, StdAirport, StdZones,
         Ride("rental", "sedan", h, <<>>, ""))
     : b \in {R(500), Num(500 * Scale + Scale \div 2), Null},
       k \in {R(12), R(0)}, t \in {R(2), R(0), Null}, h \in {0, 4, 8}}
  \cup
  {Store(StdMatrix,
         {RentalRow(4, FALSE, "4hr 40km", R(500), R(40), R(12), R(2)),
          RentalRow(4, TRUE, "4hr 50km", R(600), R(50), R(11), R(2))},
         StdOutstation, StdSlabs, StdAirport, StdZones,
         Ride("rental", "sedan", 4, <<>>, ""))}
  \cup
  {Store(StdMatrix,
         {RentalRow(4, FALSE, "4hr 40km", R(500), R(40), R(12), R(2)),
          RentalRow(4, TRUE, "4hr 50km", R(600), R(50), R(11), R(2)),
          RentalRow(4, FALSE, "4hr 45km", R(550), R(45), R(12), R(2)),
          Inactive(RentalRow(4, TRUE, "4hr 60km", R(700), R(60), R(10), R(2))),
          RentalRow(8, FALSE, "8hr 80km", R(900), R(80), R(12), R(2)),
          Inactive(RentalRow(8, TRUE, "8hr 90km", R(950), R(90), R(12), R(2))),
          ForSuv(RentalRow(4, TRUE, "4hr suv", R(800), R(40), R(14), R(3)))},
         StdOutstation, StdSlabs, StdAirport, StdZones,
         Ride("rental", v, h, <<>>, ""))
     : v \in Vehicles, h \in {4, 8, 12}}

\* the hour of the scheduled start of an Outstation ride
StartHour == 4 * 24 + 4

OutstationStores ==
  {Store(m, StdRental, o, p, StdAirport, StdZones,
         Ride("outstation", "sedan", 0, t, tt))
     : m \in {{}} \cup
             {{MatrixRow("outstation", 1, R(0), R(0), R(1), f)}
                : f \in {R(20), R(0), Null}} \cup
             {{MatrixRow("outstation", 1, R(0), R(0), R(1), R(20)),
               MatrixRow("outstation", 2, R(0), R(0), R(1), R(25))}},
       o \in {{}, StdOutstation,
              {OutstationRow(1, R(100), R(10), R(300), R(100)),
               OutstationRow(2, R(120), R(11), R(250), R(150))}},
       p \in {{}, StdSlabs},
       t \in {<<>>, <<StartHour>>},
       tt \in {"one_way", "round_trip", ""}}

\* outstation rides over stores where rows of the key are missing, not active,
\* older, or of another vehicle type
OutstationConfigs ==
  {{Inactive(OutstationRow(3, R(140), R(12), R(200), R(150)))},
   {OutstationRow(1, R(100), R(10), R(300), R(100)),
    OutstationRow(2, R(120), R(11), R(250), R(150)),
    Inactive(OutstationRow(3, R(140), R(12), R(200), R(150))),
    ForSuv(OutstationRow(4, R(160), R(13), R(350), R(200)))}}

SlabConfigs ==
  {{Inactive(SlabRow(1, 200, 50, R(15)))},
   {[SlabRow(1, 200, 50, R(15)) EXCEPT !.use_slab_system = FALSE]},
   {SlabRow(1, 200, 50, R(15)),
    SlabRow(2, 300, 40, R(16)),
    Inactive(SlabRow(3, 400, 30, R(17))),
    ForSuv(SlabRow(4, 500, 20, R(18)))}}

OutstationLookupStores ==
  {Store(StdMatrix, StdRental, o, p, StdAirport, StdZones,
         Ride("outstation", v, 0, <<>>, tt))
     : o \in {StdOutstation} \cup OutstationConfigs,
       p \in {StdSlabs} \cup SlabConfigs,
       v \in Vehicles, tt \in {"one_way", "round_trip"}}

\* regular and airport rides over stores of the same kinds
MatrixConfigs ==
  {{Inactive(MatrixRow("regular", 3, R(70), R(14), R(1), R(17)))},
   {MatrixRow("regular", 1, R(50), R(10), R(1), R(15)),
    MatrixRow("regular", 2, R(60), R(12), R(1), R(16)),
    Inactive(MatrixRow("regular", 3, R(70), R(14), R(1), R(17))),
    ForSuv(MatrixRow("regular", 4, R(80), R(16), R(1), R(18))),
    MatrixRow("outstation", 5, R(90), R(18), R(1), R(19))}}

AirportConfigs ==
  {{Inactive(AirportRow(3, R(1000), R(1100)))},
   {AirportRow(1, R(800), R(900)),
    AirportRow(2, R(850), R(950)),
    Inactive(AirportRow(3, R(1000), R(1100))),
    ForSuv(AirportRow(4, R(1200), R(1300)))}}

LookupStores ==
  {Store(m, StdRental, StdOutstation, StdSlabs, StdAirport, StdZones,
         Ride("regular", v, 0, <<>>, ""))
     : m \in MatrixConfigs, v \in Vehicles}
  \cup
  {Store(StdMatrix, StdRental, StdOutstation, StdSlabs, a, StdZones,
         Ride("airport", v, 0, <<>>, ""))
     : a \in AirportConfigs, v \in Vehicles}

AirportStores ==
  {Store(StdMatrix, StdRental, StdOutstation, StdSlabs, a, StdZones,
         Ride("airport", "sedan", 0, <<>>, ""))
     : a \in {{}, StdAirport,
              {AirportRow(1, Num(850 * Scale + Scale \div 2),
                          Num(900 * Scale + Scale \div 4))}}}

OtherStores ==
  {Store(StdMatrix, StdRental, StdOutstation, StdSlabs, StdAirport, StdZones,
         Ride("shared", "sedan", 0, <<>>, ""))}

Stores == RegularStores \cup RentalStores \cup OutstationStores
          \cup OutstationLookupStores \cup LookupStores \cup AirportStores
          \cup OtherStores

\* ------------------------------------------------------------ inputs
TripFacts(distance, duration, pickup, drop) ==
  [actualDistanceKm |-> distance, actualDurationMinutes |-> duration,
   pickupLat |-> pickup, dropLat |-> drop]

DropPoints == {HOSUR_BUS_STAND + d : d \in 0..MaxDropKm}

\* the trip facts tried for a ride of each booking type: the ones its
\* algorithm reads vary, the others are fixed
TripFactsFor(bookingType) ==
  CASE bookingType = "regular" ->
         {TripFacts(R(d), R(20), HOSUR_BUS_STAND, p)
            : d \in 3..MaxRegularKm, p \in DropPoints}
    [] bookingType = "rental" ->
         {TripFacts(R(d), R(t), HOSUR_BUS_STAND, HOSUR_BUS_STAND + 3)
            : d \in {30, 40, 50}, t \in {200, 240, 300}}
    [] bookingType = "outstation" ->
         {TripFacts(R(d), R(600), HOSUR_BUS_STAND, HOSUR_BUS_STAND + 40)
            : d \in {10, 11, 20, 55, 150, 151, 250}}
    [] bookingType = "airport" ->
         {TripFacts(R(40), R(60), p, q)
            : p \in {HOSUR_BUS_STAND, HOSUR_BUS_STAND + 40},
              q \in {HOSUR_BUS_STAND, HOSUR_BUS_STAND + 40,
                     HOSUR_BUS_STAND - 40}}
    [] OTHER -> {TripFacts(R(5), R(20), HOSUR_BUS_STAND, HOSUR_BUS_STAND + 3)}

\* the clock readings tried for new Date() in calculateOutstationFare
Nows == {StartHour - 25, StartHour, StartHour + 24, StartHour + 25,
         StartHour + 24 * MaxDays}

\* ------------------------------------------------------------ actions
NoArgs == [rideId |-> "", facts |-> TripFacts(Num(0), Num(0), 0, 0)]
NoRide == Ride("", "", 0, <<>>, "")
NoRet == [success |-> FALSE, error |-> "", fareBreakdown |-> NoFare]
Failure(msg) == [success |-> FALSE, error |-> msg, fareBreakdown |-> NoFare]
Success(b) == [success |-> TRUE, error |-> "", fareBreakdown |-> b]

\* the tracker as it is constructed (lines 16-18), with no call made
TrackerAtRest ==
  /\ isTracking = FALSE
  /\ trackingIntervals = 0
  /\ intervals = {}
  /\ locationPoints = <<>>
  /\ starts = [s \in 1..MaxStarts |-> "idle"]
  /\ recording = <<>>
  /\ clock = 0
  /\ lastCall = ""

\* calculateTripDistance before its first call
NotFetched == [fetched |-> FALSE, error |-> FALSE, data |-> <<>>]
NoDistance == [returned |-> FALSE, threw |-> FALSE, distanceKm |-> Num(0),
               pointsUsed |-> 0]

Init ==
  /\ \E s \in Stores :
       /\ fare_matrix = s.fare_matrix
       /\ rental_fares = s.rental_fares
       /\ outstation_fares = s.outstation_fares
       /\ outstation_packages = s.outstation_packages
       /\ airport_fares = s.airport_fares
       /\ zones = s.zones
       /\ rides = s.rides
  /\ trip_completions = <<>>
  /\ pc = "idle"
  /\ args = NoArgs
  /\ ride = NoRide
  /\ fareBreakdown = NoFare
  /\ ret = NoRet
  /\ endTime = 0
  /\ slabError = FALSE
  /\ queried = {}
  /\ calls = <<>>
  /\ trip_location_history = <<>>
  /\ locationHistory = NotFetched
  /\ tripDistance = NoDistance
  /\ TrackerAtRest

\* lines 54-94: the call, the fetch of the ride and of the zones
RideNotFound ==
  /\ pc = "idle"
  /\ \E id \in {"r0"} :
       /\ id \notin DOMAIN rides
       /\ args' = [rideId |-> id, facts |-> CHOOSE f \in TripFactsFor("") : TRUE]
  /\ ret' = Failure("Ride not found")
  /\ pc' = "done"
  /\ queried' = {"rides"}
  /\ UNCHANGED <<configVars, trackerVars, calls, outstationVars,
               rides, trip_completions, ride, fareBreakdown>>

beginTripFare ==
  /\ pc = "idle"
  /\ \E id \in DOMAIN rides :
       \E f \in TripFactsFor(rides[id].booking_type) :
         /\ args' = [rideId |-> id, facts |-> f]
         /\ ride' = rides[id]
  /\ pc' = "calculate"
  /\ queried' = {"rides", "zones"}
  /\ UNCHANGED <<configVars, trackerVars, calls, outstationVars,
               rides, trip_completions, fareBreakdown, ret>>

\* faulty variant: the fare already on the ride is added to the new total
Calculated_Accumulating(r) ==
  /\ IF r.ok
     THEN /\ fareBreakdown' =
               IF ride.fare_amount.k = "num"
               THEN [r.fare EXCEPT !.total_fare = Add(@, ride.fare_amount)]
               ELSE r.fare
          /\ pc' = "store"
          /\ ret' = ret
     ELSE /\ fareBreakdown' = fareBreakdown
          /\ pc' = "done"
          /\ ret' = Failure(r.error)
  /\ UNCHANGED <<configVars, trackerVars, calls, rides, trip_completions, args, ride>>

\* faulty variant: an Error thrown by the algorithm is not passed on
Calculated_Swallowed(r) ==
  /\ IF r.ok
     THEN /\ fareBreakdown' = r.fare
          /\ pc' = "store"
          /\ ret' = ret
     ELSE /\ fareBreakdown' = fareBreakdown
          /\ pc' = "done"
          /\ ret' = [success |-> TRUE, error |-> "", fareBreakdown |-> r.fare]
  /\ UNCHANGED <<configVars, trackerVars, calls, rides, trip_completions, args, ride>>

\* lines 95-143 and the catch of lines 186-189: the outcome r of the
\* algorithm the booking type selects
Calculated(r) ==
  /\ IF r.ok
     THEN /\ fareBreakdown' = r.fare
          /\ pc' = "store"
          /\ ret' = ret
     ELSE /\ fareBreakdown' = fareBreakdown
          /\ pc' = "done"
          /\ ret' = Failure(r.error)
  /\ UNCHANGED <<configVars, trackerVars, calls, rides, trip_completions, args, ride>>

RegularFare ==
  /\ pc = "calculate"
  /\ ride.booking_type = "regular"
  /\ \E fareMatrices \in FirstOf(Freshest(FareMatrixRows("regular", ride.vehicle_type))) :
       Calculated(calculateRegularFare(ride.vehicle_type,
                    args.facts.actualDistanceKm,
                    args.facts.actualDurationMinutes, args.facts.dropLat,
                    zones, fareMatrices))
  /\ queried' = queried \cup {"fare_matrix"}
  /\ UNCHANGED outstationVars

RentalFare ==
  /\ pc = "calculate"
  /\ ride.booking_type = "rental"
  /\ LET selectedHours == IF ride.selected_hours = 0 THEN 4
                          ELSE ride.selected_hours
     IN \E rentalFares \in FirstOf(RentalFareRows(ride.vehicle_type, selectedHours)) :
          Calculated(calculateRentalFare(ride.vehicle_type,
                       args.facts.actualDistanceKm,
                       args.facts.actualDurationMinutes, selectedHours,
                       rentalFares))
  /\ queried' = queried \cup {"rental_fares"}
  /\ UNCHANGED outstationVars

\* the clock reading of the call before this one: the clock does not go back
LastEndTime == IF calls = <<>> THEN 0 ELSE calls[Len(calls)].endTime

\* the outstation_packages query is made for a round trip that may use a slab
\* (lines 722-740); when it gives an error, line 742 goes on as with no row
OutstationFare ==
  /\ pc = "calculate"
  /\ ride.booking_type = "outstation"
  /\ \E now \in {t \in Nows : t >= LastEndTime}, err \in BOOLEAN :
     \E outstationFares \in FirstOf(OutstationFareRows(ride.vehicle_type)) :
     \E slabPackages \in FirstOf(SlabPackageRows(ride.vehicle_type)) :
       LET numberOfDays == NumberOfDays(ride.scheduled_time, now)
           tripType == IF ride.trip_type = "" THEN "round_trip"
                       ELSE ride.trip_type
           slabQueried == tripType # "one_way"
                          /\ UseSlab(numberOfDays, args.facts.actualDistanceKm)
           slabs == IF slabQueried /\ err THEN {} ELSE slabPackages
           r == calculateOutstationFare(ride.vehicle_type,
                  args.facts.actualDistanceKm,
                  args.facts.actualDurationMinutes,
                  numberOfDays, tripType, outstationFares, slabs,
                  FareMatrixRows("outstation", ride.vehicle_type))
       IN /\ endTime' = now
          /\ slabError' = (slabQueried /\ err)
          /\ queried' = queried
               \cup (IF slabQueried THEN {"outstation_packages"} ELSE {})
               \cup (IF slabQueried /\ slabs # {} THEN {}
                     ELSE {"outstation_fares"})
               \cup (IF r.ok THEN {"fare_matrix"} ELSE {})
          /\ Calculated(r)

AirportFare ==
  /\ pc = "calculate"
  /\ ride.booking_type = "airport"
  /\ \E airportFares \in FirstOf(AirportFareRows(ride.vehicle_type)) :
       Calculated(calculateAirportFare(ride.vehicle_type, args.facts.pickupLat,
                    args.facts.dropLat, airportFares))
  /\ queried' = queried \cup {"airport_fares"}
  /\ UNCHANGED outstationVars

\* faulty variant: a booking type the switch does not know is priced as a
\* regular ride
InvalidBookingType_AsRegular ==
  /\ pc = "calculate"
  /\ ride.booking_type \notin {"regular", "rental", "outstation", "airport"}
  /\ \E fareMatrices \in FirstOf(Freshest(FareMatrixRows("regular", ride.vehicle_type))) :
       Calculated(calculateRegularFare(ride.vehicle_type,
                    args.facts.actualDistanceKm,
                    args.facts.actualDurationMinutes, args.facts.dropLat,
                    zones, fareMatrices))
  /\ queried' = queried \cup {"fare_matrix"}
  /\ UNCHANGED outstationVars

\* lines 141-142: the default case of the switch
InvalidBookingType ==
  /\ pc = "calculate"
  /\ ride.booking_type \notin {"regular", "rental", "outstation", "airport"}
  /\ ret' = Failure("Invalid booking type")
  /\ pc' = "done"
  /\ UNCHANGED <<configVars, trackerVars, calls, outstationVars, queried,
               rides, trip_completions, args, ride, fareBreakdown>>

\* lines 145-171: the insert into trip_completions, which may fail
CompletionRow ==
  [ride_id |-> args.rideId,
   booking_type |-> ride.booking_type,
   vehicle_type |-> ride.vehicle_type,
   actual_distance_km |-> args.facts.actualDistanceKm,
   actual_duration_minutes |-> args.facts.actualDurationMinutes,
   total_fare |-> fareBreakdown.total_fare,
   fare_breakdown |-> fareBreakdown]

storeTripCompletion ==
  /\ pc = "store"
  /\ trip_completions' = Append(trip_completions, CompletionRow)
  /\ pc' = "update"
  /\ UNCHANGED <<configVars, trackerVars, calls, outstationVars, queried,
               rides, args, ride, fareBreakdown, ret>>

storeTripCompletionFails ==
  /\ pc = "store"
  /\ ret' = Failure("Failed to store trip completion")
  /\ pc' = "done"
  /\ UNCHANGED <<configVars, trackerVars, calls, outstationVars, queried,
               rides, trip_completions, args, ride, fareBreakdown>>

\* lines 173-184: the update of the ride and the return
updateRide ==
  /\ pc = "update"
  /\ rides' = [rides EXCEPT ![args.rideId] =
                 [@ EXCEPT !.fare_amount = fareBreakdown.total_fare,
                           !.distance_km = args.facts.actualDistanceKm,
                           !.duration_minutes = args.facts.actualDurationMinutes]]
  /\ ret' = Success(fareBreakdown)
  /\ pc' = "done"
  /\ UNCHANGED <<configVars, trackerVars, calls, outstationVars, queried,
               trip_completions, args, ride, fareBreakdown>>

\* line 174: the result of the update is not looked at, so the call returns
\* success also when the update has failed
updateRideFails ==
  /\ pc = "update"
  /\ ret' = Success(fareBreakdown)
  /\ pc' = "done"
  /\ UNCHANGED <<configVars, trackerVars, calls, outstationVars, queried,
               rides, trip_completions, args, ride, fareBreakdown>>

Next ==
  \/ RideNotFound
  \/ beginTripFare
  \/ RegularFare
  \/ RentalFare
  \/ OutstationFare
  \/ AirportFare
  \/ InvalidBookingType
  \/ storeTripCompletion
  \/ storeTripCompletionFails
  \/ updateRide
  \/ updateRideFails

Spec == Init /\ [][Next]_vars

\* ------------------------------------------------------------ repeated calls
\* lines 45-94: the call is made again for the same ride with the same
\* arguments, after the call before it has returned; the ride is read anew
repeatTripFare ==
  /\ pc = "done"
  /\ Len(calls) + 1 < MaxCalls
  /\ args.rideId \in DOMAIN rides
  /\ calls' = Append(calls, [args |-> args, endTime |-> endTime,
                              slabError |-> slabError, ret |-> ret,
                              fareBreakdown |-> fareBreakdown])
  /\ ride' = rides[args.rideId]
  /\ pc' = "calculate"
  /\ fareBreakdown' = NoFare
  /\ ret' = NoRet
  /\ queried' = {"rides", "zones"}
  /\ endTime' = 0
  /\ slabError' = FALSE
  /\ UNCHANGED <<configVars, trackerVars, rides, trip_completions, args>>

\* one ride of each booking type over the standard store
RepeatStores ==
  {Store(StdMatrix, StdRental, StdOutstation, StdSlabs, StdAirport, StdZones, r)
     : r \in {Ride("regular", "sedan", 0, <<>>, ""),
              Ride("rental", "sedan", 4, <<>>, ""),
              Ride("outstation", "sedan", 0, <<StartHour>>, "one_way"),
              Ride("outstation", "sedan", 0, <<StartHour>>, "round_trip"),
              Ride("airport", "sedan", 0, <<>>, ""),
              Ride("airport", "suv", 0, <<>>, ""),
              Ride("shared", "sedan", 0, <<>>, "")}}

RepeatInit ==
  /\ \E s \in RepeatStores :
       /\ fare_matrix = s.fare_matrix
       /\ rental_fares = s.rental_fares
       /\ outstation_fares = s.outstation_fares
       /\ outstation_packages = s.outstation_packages
       /\ airport_fares = s.airport_fares
       /\ zones = s.zones
       /\ rides = s.rides
  /\ trip_completions = <<>>
  /\ pc = "idle"
  /\ args = NoArgs
  /\ ride = NoRide
  /\ fareBreakdown = NoFare
  /\ ret = NoRet
  /\ endTime = 0
  /\ slabError = FALSE
  /\ queried = {}
  /\ calls = <<>>
  /\ trip_location_history = <<>>
  /\ locationHistory = NotFetched
  /\ tripDistance = NoDistance
  /\ TrackerAtRest

RepeatNext ==
  \/ Next
  \/ repeatTripFare

RepeatSpec == RepeatInit /\ [][RepeatNext]_vars

\* ------------------------------------------------------------ tracker actions
\* faulty variant: the query has no order, the rows come as they were inserted
OrderedByRecordedAt_Unordered(rows) == {rows}

\* lines 169-174: the rows of the trip by recorded_at ascending; rows of one
\* recorded_at come in any order
OrderedByRecordedAt(rows) ==
  LET n == Len(rows)
      orders == {f \in [1..n -> 1..n] :
                   /\ \A i, j \in 1..n : f[i] = f[j] => i = j
                   /\ \A i, j \in 1..n :
                        i < j => rows[f[i]].recorded_at <= rows[f[j]].recorded_at}
  IN {[i \in 1..n |-> rows[f[i]]] : f \in orders}

\* the row recordLocationPoint inserts for a fix p tenths of a km up the
\* meridian taken at clock reading t
LocationPoint(p, t) ==
  [latitude |-> Num(p * (Scale \div 10)), recorded_at |-> t]

\* lines 77-131: a fix is taken and stored; recorded_at is the time of the
\* fix, so the table read by recorded_at has it last
recordLocationPoint ==
  /\ Len(trip_location_history) < MaxPoints
  /\ clock' = clock + 1
  /\ \E p \in 0..MaxPosition :
       /\ locationPoints' = Append(locationPoints, LocationPoint(p, clock'))
       /\ trip_location_history' =
            Append(trip_location_history, LocationPoint(p, clock'))
  /\ UNCHANGED <<fareVars, locationHistory, tripDistance, lifecycleVars>>

\* lines 161-222: the query gives the stored points and the distance is
\* returned
tripDistanceCalculated ==
  /\ \E data \in OrderedByRecordedAt(trip_location_history) :
       /\ locationHistory' = [fetched |-> TRUE, error |-> FALSE, data |-> data]
       /\ tripDistance' = calculateTripDistance(data)
       /\ locationPoints' = IF NotEnoughPoints(data) THEN locationPoints ELSE <<>>
  /\ UNCHANGED <<fareVars, trip_location_history, clock, lifecycleVars>>

\* lines 176-179 and 223-226: the query gives an error, which is thrown
locationHistoryFetchFails ==
  /\ locationHistory' = [fetched |-> TRUE, error |-> TRUE, data |-> <<>>]
  /\ tripDistance' = [returned |-> FALSE, threw |-> TRUE,
                      distanceKm |-> Num(0), pointsUsed |-> 0]
  /\ UNCHANGED <<fareVars, trip_location_history, locationPoints, clock,
                 lifecycleVars>>

\* ------------------------------------------------------------ tracker lifecycle
\* a sequence without its i-th element
Remove(seq, i) ==
  [j \in 1..(Len(seq) - 1) |-> IF j < i THEN seq[j] ELSE seq[j + 1]]

\* a recordLocationPoint call that awaits the position
AwaitingFix(caller) == [caller |-> caller, stage |-> "fix", recorded_at |-> 0]

\* fewer than MaxClock recordLocationPoint calls are in flight
CanRecord == Len(recording) < MaxClock

\* lines 23-37: startTripTracking is called; a trip that is tracked returns
\* true at once, otherwise the permission is awaited
startTripTracking(s) ==
  /\ starts[s] = "idle"
  /\ \A q \in 1..(s - 1) : starts[q] # "idle"
  /\ starts' = [starts EXCEPT
                  ![s] = IF isTracking THEN "returned" ELSE "permission"]
  /\ lastCall' = "start"
  /\ UNCHANGED <<fareVars, trip_location_history, locationHistory,
                 tripDistance, locationPoints, clock, isTracking,
                 trackingIntervals, intervals, recording>>

\* lines 40-44: the permission is not granted and the call returns false
permissionDenied(s) ==
  /\ starts[s] = "permission"
  /\ starts' = [starts EXCEPT ![s] = "returned"]
  /\ UNCHANGED <<fareVars, trip_location_history, locationHistory,
                 tripDistance, locationPoints, clock, isTracking,
                 trackingIntervals, intervals, recording, lastCall>>

\* lines 40-51: the permission is granted; the points are reset, the flag is
\* set and the first recordLocationPoint is awaited
permissionGranted(s) ==
  /\ starts[s] = "permission"
  /\ CanRecord
  /\ locationPoints' = <<>>
  /\ isTracking' = TRUE
  /\ recording' = Append(recording, AwaitingFix(s))
  /\ starts' = [starts EXCEPT ![s] = "recording"]
  /\ UNCHANGED <<fareVars, trip_location_history, locationHistory,
                 tripDistance, clock, trackingIntervals, intervals, lastCall>>

\* lines 83-101: the position arrives; recorded_at is read from the clock and
\* the point is pushed to the points in memory, then the insert is awaited
positionFixed(i) ==
  /\ i \in DOMAIN recording
  /\ recording[i].stage = "fix"
  /\ clock < MaxClock
  /\ clock' = clock + 1
  /\ locationPoints' = Append(locationPoints, LocationPoint(0, clock'))
  /\ recording' = [recording EXCEPT
                     ![i] = [@ EXCEPT !.stage = "insert", !.recorded_at = clock']]
  /\ UNCHANGED <<fareVars, trip_location_history, locationHistory,
                 tripDistance, isTracking, trackingIntervals, intervals,
                 starts, lastCall>>

\* lines 83-87 and 128-130: no position is had; the call ends in its catch
positionFails(i) ==
  /\ i \in DOMAIN recording
  /\ recording[i].stage = "fix"
  /\ recording' = Remove(recording, i)
  /\ UNCHANGED <<fareVars, trip_location_history, locationHistory,
                 tripDistance, locationPoints, clock, isTracking,
                 trackingIntervals, intervals, starts, lastCall>>

\* lines 104-117: the insert into trip_location_history is done
pointInserted(i) ==
  /\ i \in DOMAIN recording
  /\ recording[i].stage = "insert"
  /\ trip_location_history' =
       Append(trip_location_history, LocationPoint(0, recording[i].recorded_at))
  /\ recording' = Remove(recording, i)
  /\ UNCHANGED <<fareVars, locationHistory, tripDistance, locationPoints, clock,
                 isTracking, trackingIntervals, intervals, starts, lastCall>>

\* lines 119-121: the insert gives an error, which is logged
pointInsertFails(i) ==
  /\ i \in DOMAIN recording
  /\ recording[i].stage = "insert"
  /\ recording' = Remove(recording, i)
  /\ UNCHANGED <<fareVars, trip_location_history, locationHistory,
                 tripDistance, locationPoints, clock, isTracking,
                 trackingIntervals, intervals, starts, lastCall>>

\* lines 54-66: the first recordLocationPoint has returned; the interval is
\* created and registered and the call returns true
intervalCreated(s) ==
  /\ starts[s] = "recording"
  /\ \A i \in DOMAIN recording : recording[i].caller # s
  /\ intervals' = intervals \cup {s}
  /\ trackingIntervals' = s
  /\ starts' = [starts EXCEPT ![s] = "returned"]
  /\ UNCHANGED <<fareVars, trip_location_history, locationHistory,
                 tripDistance, locationPoints, clock, isTracking, recording,
                 lastCall>>

\* lines 54-61: a tick of interval i; when the trip is not tracked the
\* interval clears itself and the registration of the trip is deleted,
\* otherwise a recordLocationPoint is begun
tick(i) ==
  /\ i \in intervals
  /\ isTracking => CanRecord
  /\ IF isTracking
     THEN /\ recording' = Append(recording, AwaitingFix(0))
          /\ UNCHANGED <<intervals, trackingIntervals>>
     ELSE /\ intervals' = intervals \ {i}
          /\ trackingIntervals' = 0
          /\ UNCHANGED recording
  /\ UNCHANGED <<fareVars, trip_location_history, locationHistory,
                 tripDistance, locationPoints, clock, isTracking, starts,
                 lastCall>>

\* lines 136-156: the registered interval, if any, is cleared and its
\* registration deleted; the flag is set to false
stopTripTracking ==
  /\ intervals' = intervals \ {trackingIntervals}
  /\ trackingIntervals' = 0
  /\ isTracking' = FALSE
  /\ lastCall' = "stop"
  /\ UNCHANGED <<fareVars, trip_location_history, locationHistory,
                 tripDistance, locationPoints, clock, starts, recording>>

LifecycleNext ==
  \/ \E s \in 1..MaxStarts : startTripTracking(s)
  \/ \E s \in 1..MaxStarts : permissionDenied(s)
  \/ \E s \in 1..MaxStarts : permissionGranted(s)
  \/ \E i \in 1..MaxClock : positionFixed(i)
  \/ \E i \in 1..MaxClock : positionFails(i)
  \/ \E i \in 1..MaxClock : pointInserted(i)
  \/ \E i \in 1..MaxClock : pointInsertFails(i)
  \/ \E s \in 1..MaxStarts : intervalCreated(s)
  \/ \E i \in 1..MaxStarts : tick(i)
  \/ stopTripTracking
  \/ tripDistanceCalculated

\* the tracker of one trip, with the fare service at rest
TrackerInit ==
  /\ \E s \in OtherStores :
       /\ fare_matrix = s.fare_matrix
       /\ rental_fares = s.rental_fares
       /\ outstation_fares = s.outstation_fares
       /\ outstation_packages = s.outstation_packages
       /\ airport_fares = s.airport_fares
       /\ zones = s.zones
       /\ rides = s.rides
  /\ trip_completions = <<>>
  /\ pc = "idle"
  /\ args = NoArgs
  /\ ride = NoRide
  /\ fareBreakdown = NoFare
  /\ ret = NoRet
  /\ endTime = 0
  /\ slabError = FALSE
  /\ queried = {}
  /\ calls = <<>>
  /\ trip_location_history = <<>>
  /\ locationHistory = NotFetched
  /\ tripDistance = NoDistance
  /\ TrackerAtRest

TrackerNext ==
  \/ recordLocationPoint
  \/ tripDistanceCalculated
  \/ locationHistoryFetchFails

TrackerSpec == TrackerInit /\ [][TrackerNext]_vars

\* the calls of the tracker for one trip as they overlap
LifecycleSpec == TrackerInit /\ [][LifecycleNext]_vars

\* setInterval runs the callback of a live interval every 5 seconds; the
\* position is had or given up after the timeout of line 86, and the insert
\* comes back
FairLifecycleSpec ==
  /\ LifecycleSpec
  /\ \A i \in 1..MaxStarts : WF_vars(tick(i))
  /\ \A i \in 1..MaxClock :
       /\ WF_vars(positionFixed(i) \/ positionFails(i))
       /\ WF_vars(pointInserted(i) \/ pointInsertFails(i))

\* ------------------------------------------------------------ properties
\* a breakdown has been computed by the call
HasFare == fareBreakdown.booking_type # ""

Components(b) ==
  <<b.base_fare, b.distance_fare, b.time_fare, b.surge_charges,
    b.deadhead_charges, b.platform_fee, b.gst_on_charges,
    b.gst_on_platform_fee, b.extra_km_charges, b.driver_allowance>>

\* the value of a stored or computed amount in units of 1/Scale
Val(x) == IF x.k \in {"num", "prefix"} THEN x.v ELSE 0

RECURSIVE SumVals(_)
SumVals(seq) == IF seq = <<>> THEN 0 ELSE Val(Head(seq)) + SumVals(Tail(seq))

\* the nearest whole number of units, a half rounding up
Rounded(n) == ((2 * n + Scale) \div (2 * Scale)) * Scale

\* C1: total_fare of every breakdown is the rounded sum of its ten itemized
\* components
C1_TotalIsRoundedSumOfComponents ==
  HasFare =>
    /\ fareBreakdown.total_fare.k = "num"
    /\ fareBreakdown.total_fare.v = Rounded(SumVals(Components(fareBreakdown)))

\* the charges of a breakdown other than the platform fee and the two GST items
NonPlatformCharges(b) ==
  SumVals(<<b.base_fare, b.distance_fare, b.time_fare, b.surge_charges,
            b.deadhead_charges, b.extra_km_charges, b.driver_allowance>>)

\* C2: in every Regular and Outstation breakdown gst_on_charges is 5% of the
\* non-platform-fee charges, gst_on_platform_fee is 18% of platform_fee, and
\* the total is the rounded sum that includes both
C2_GstPolicy ==
  (HasFare /\ fareBreakdown.booking_type \in {"regular", "outstation"}) =>
    /\ fareBreakdown.gst_on_charges = Num(NonPlatformCharges(fareBreakdown) \div 20)
    /\ NonPlatformCharges(fareBreakdown) % 20 = 0
    /\ fareBreakdown.gst_on_platform_fee
         = Num((18 * Val(fareBreakdown.platform_fee)) \div 100)
    /\ (18 * Val(fareBreakdown.platform_fee)) % 100 = 0
    /\ fareBreakdown.total_fare
         = Num(Rounded(NonPlatformCharges(fareBreakdown)
                       + Val(fareBreakdown.platform_fee)
                       + Val(fareBreakdown.gst_on_charges)
                       + Val(fareBreakdown.gst_on_platform_fee)))

\* a Regular breakdown with surge, deadhead charge and both GST items charged
C2_Witness ==
  /\ HasFare
  /\ fareBreakdown.booking_type = "regular"
  /\ Val(fareBreakdown.surge_charges) > 0
  /\ Val(fareBreakdown.deadhead_charges) > 0
  /\ Val(fareBreakdown.gst_on_charges) > 0
  /\ Val(fareBreakdown.gst_on_platform_fee) > 0

\* C3: every monetary component of every breakdown is a finite number >= 0
C3_ComponentsFiniteNonNegative ==
  HasFare =>
    \A i \in 1..Len(Components(fareBreakdown)) :
      /\ Components(fareBreakdown)[i].k = "num"
      /\ Components(fareBreakdown)[i].v >= 0

\* the km between two latitudes, in units of 1/Scale
KmBetween(a, b) == (IF a >= b THEN a - b ELSE b - a) * Scale

InnerZones == {zones[i] : i \in {j \in 1..Len(zones) : IncludesInnerRing(zones[j].name)}}
OuterZones == {zones[i] : i \in {j \in 1..Len(zones) : IncludesOuterRing(zones[j].name)}}

\* the class of the drop point by the decision order of the zone detector
ZoneClass ==
  IF InnerZones = {} \/ OuterZones = {} THEN "NoDeadhead"
  ELSE LET inner == CHOOSE z \in InnerZones : TRUE
           outer == CHOOSE z \in OuterZones : TRUE
       IN IF KmBetween(args.facts.dropLat, inner.center_latitude)
               <= Val(inner.radius_km)
          THEN "WithinInner"
          ELSE IF KmBetween(args.facts.dropLat, outer.center_latitude)
                    > Val(outer.radius_km)
          THEN "BeyondOuter"
          ELSE "BetweenRings"

IsRegularFare == HasFare /\ fareBreakdown.booking_type = "regular"

\* C4: the zone a Regular fare reports for its drop point follows the decision
\* order: a ring zone missing, else within the inner radius (inclusive), else
\* beyond the outer radius (exclusive), else between the rings
C4_ZoneDecisionOrder ==
  IsRegularFare =>
    /\ ZoneClass = "NoDeadhead"
         <=> fareBreakdown.details.zone_detected = "Unknown"
    /\ ZoneClass = "WithinInner" <=> fareBreakdown.details.is_inner_zone
    /\ ZoneClass = "WithinInner"
         => \E z \in InnerZones : fareBreakdown.details.zone_detected = z.name
    /\ ZoneClass = "BeyondOuter"
         <=> fareBreakdown.details.zone_detected = "Beyond Outer Zone"
    /\ ZoneClass = "BetweenRings"
         <=> fareBreakdown.details.zone_detected = "Between Inner and Outer Ring"

\* a drop point inside the inner ring and also beyond the outer ring, reported
\* as within the inner ring
C4_Witness ==
  /\ IsRegularFare
  /\ fareBreakdown.details.is_inner_zone
  /\ \E o \in OuterZones :
       KmBetween(args.facts.dropLat, o.center_latitude) > Val(o.radius_km)

\* C5: deadhead_charges is (distance(drop, bus stand) / 2) * perKmRate for a
\* Regular fare whose drop point is between the rings and 0 in every other
\* breakdown; a Regular fare with its fare matrix present fails only when the
\* completion cannot be stored
C5_DeadheadCharge ==
  /\ HasFare =>
       fareBreakdown.deadhead_charges =
         IF IsRegularFare /\ ZoneClass = "BetweenRings"
         THEN Num(((KmBetween(args.facts.dropLat, HOSUR_BUS_STAND) \div 2)
                   * Val(fareBreakdown.details.per_km_rate)) \div Scale)
         ELSE Num(0)
  /\ (/\ pc = "done"
      /\ ride.booking_type = "regular"
      /\ FareMatrixRows("regular", ride.vehicle_type) # {}
      /\ ~ret.success)
       => ret.error = "Failed to store trip completion"

\* a Regular fare with a deadhead charge
C5_Witness ==
  /\ IsRegularFare
  /\ ZoneClass = "BetweenRings"
  /\ Val(fareBreakdown.deadhead_charges) > 0

\* C6: in a Regular fare distance_fare = max(0, distance - 4) * perKmRate,
\* surge_charges = (base + distance + deadhead) * (surgeMultiplier - 1) and
\* time_fare = 0
C6_RegularDistanceSurgeTime ==
  IsRegularFare =>
    LET extra == IF Val(args.facts.actualDistanceKm) > 4 * Scale
                 THEN Val(args.facts.actualDistanceKm) - 4 * Scale ELSE 0
    IN /\ fareBreakdown.distance_fare
            = Num((extra * Val(fareBreakdown.details.per_km_rate)) \div Scale)
       /\ Val(args.facts.actualDistanceKm) <= 4 * Scale
            => fareBreakdown.distance_fare = Num(0)
       /\ fareBreakdown.surge_charges
            = Num(((Val(fareBreakdown.base_fare)
                    + Val(fareBreakdown.distance_fare)
                    + Val(fareBreakdown.deadhead_charges))
                   * (Val(fareBreakdown.details.surge_multiplier) - Scale))
                  \div Scale)
       /\ fareBreakdown.time_fare = Num(0)

\* a Regular fare of a trip longer than 4 km, under surge, of a positive duration
C6_Witness ==
  /\ IsRegularFare
  /\ Val(fareBreakdown.distance_fare) > 0
  /\ Val(fareBreakdown.surge_charges) > 0
  /\ Val(args.facts.actualDurationMinutes) > 0

\* the fare-matrix row a Regular fare was computed from
RegularRow == CHOOSE r \in Freshest(FareMatrixRows("regular", ride.vehicle_type)) : TRUE

\* C7: the platform fee of a Regular fare is the row's platform_fee when that is
\* a number, and 10 when it is absent, null, empty or not numeric
C7_PlatformFeeFallback ==
  IsRegularFare =>
    fareBreakdown.platform_fee =
      IF RegularRow.platform_fee.k = "num" THEN RegularRow.platform_fee
      ELSE IF RegularRow.platform_fee.k \in {"undef", "null", "empty", "text"}
      THEN R(10)
      ELSE fareBreakdown.platform_fee

IsRentalFare == HasFare /\ fareBreakdown.booking_type = "rental"

\* the package a Rental fare was computed from
RentalPackage ==
  CHOOSE p \in rental_fares : p.package_name = fareBreakdown.details.package_name

SelectedHours == IF ride.selected_hours = 0 THEN 4 ELSE ride.selected_hours

\* C8: in a Rental fare the extra-km charge is max(0, distance - km_included)
\* * extra_km_rate, the extra-time charge is max(0, duration - hours * 60)
\* * extra_minute_rate, surge, platform fee and both GST items are 0,
\* within_allowance is true exactly when both extra charges are 0, and
\* total_fare = round(base_fare + extra-km charge + extra-time charge)
C8_RentalFare ==
  IsRentalFare =>
    LET extraKm ==
          IF Val(args.facts.actualDistanceKm) > Val(RentalPackage.km_included)
          THEN Val(args.facts.actualDistanceKm) - Val(RentalPackage.km_included)
          ELSE 0
        extraMinutes ==
          IF Val(args.facts.actualDurationMinutes) > SelectedHours * 60 * Scale
          THEN Val(args.facts.actualDurationMinutes) - SelectedHours * 60 * Scale
          ELSE 0
        extraKmCharge == (extraKm * Val(RentalPackage.extra_km_rate)) \div Scale
        extraTimeCharge ==
          (extraMinutes * Val(RentalPackage.extra_minute_rate)) \div Scale
    IN /\ fareBreakdown.extra_km_charges = Num(extraKmCharge)
       /\ fareBreakdown.time_fare = Num(extraTimeCharge)
       /\ fareBreakdown.surge_charges = Num(0)
       /\ fareBreakdown.platform_fee = Num(0)
       /\ fareBreakdown.gst_on_charges = Num(0)
       /\ fareBreakdown.gst_on_platform_fee = Num(0)
       /\ fareBreakdown.details.within_allowance = "true"
            <=> (extraKmCharge = 0 /\ extraTimeCharge = 0)
       /\ fareBreakdown.total_fare
            = Num(Rounded(Val(RentalPackage.base_fare) + extraKmCharge
                          + extraTimeCharge))
       /\ (/\ args.facts.actualDistanceKm = RentalPackage.km_included
           /\ Val(args.facts.actualDurationMinutes) = SelectedHours * 60 * Scale)
            => /\ fareBreakdown.details.within_allowance = "true"
               /\ fareBreakdown.total_fare
                    = Num(Rounded(Val(RentalPackage.base_fare)))

\* a Rental fare of a trip longer, in km and in minutes, than its package
C8_Witness ==
  /\ IsRentalFare
  /\ Val(fareBreakdown.extra_km_charges) > 0
  /\ Val(fareBreakdown.time_fare) > 0
  /\ fareBreakdown.details.within_allowance = "false"

IsOneWayFare ==
  /\ HasFare
  /\ fareBreakdown.booking_type = "outstation"
  /\ fareBreakdown.details.direction = "one_way"

\* the row of outstation_fares an Outstation fare was computed from
OutstationConfig == CHOOSE r \in OutstationFareRows(ride.vehicle_type) : TRUE

\* C9: in an Outstation one-way fare distance_fare = distance * perKmRate * 2,
\* base_fare is the configured base fare, driver_allowance = 0 and
\* extra_km_charges = 0, whatever the number of days
C9_OneWayFare ==
  /\ IsOneWayFare =>
       /\ fareBreakdown.distance_fare
            = Num(2 * ((Val(args.facts.actualDistanceKm)
                        * Val(OutstationConfig.per_km_rate)) \div Scale))
       /\ fareBreakdown.base_fare = OutstationConfig.base_fare
       /\ fareBreakdown.driver_allowance = Num(0)
       /\ fareBreakdown.extra_km_charges = Num(0)
  /\ (/\ HasFare
      /\ ride.booking_type = "outstation"
      /\ ride.trip_type = "one_way") => IsOneWayFare

\* base 100, rate 10, distance 20 give a distance fare of 400, on a trip of
\* more than one day
C9_Witness ==
  /\ IsOneWayFare
  /\ fareBreakdown.base_fare = R(100)
  /\ fareBreakdown.details.per_km_rate = R(10)
  /\ args.facts.actualDistanceKm = R(20)
  /\ fareBreakdown.distance_fare = R(400)
  /\ fareBreakdown.details.days_calculated > 1

\* the smallest of the tiers 10, 20, .., 150 that holds the distance d, which
\* is at most 150 km
SmallestTier(d) ==
  CHOOSE l \in {10 * i : i \in 1..15} :
    /\ d <= l * Scale
    /\ \A m \in {10 * i : i \in 1..15} : d <= m * Scale => l <= m

\* C10: a same-day Outstation round trip of at most 150 km with a slab package
\* configured is priced by the smallest tier whose limit holds the distance:
\* base_fare is that tier's fare, extraKm = max(0, distance - limit) and
\* driver_allowance = 0
C10_SlabSelection ==
  (/\ HasFare
   /\ ride.booking_type = "outstation"
   /\ ride.trip_type # "one_way"
   /\ fareBreakdown.details.days_calculated = 1
   /\ Val(args.facts.actualDistanceKm) <= 150 * Scale
   /\ SlabPackageRows(ride.vehicle_type) # {}
   /\ ~slabError) =>
     LET limit == SmallestTier(Val(args.facts.actualDistanceKm))
         package == CHOOSE r \in SlabPackageRows(ride.vehicle_type) : TRUE
     IN /\ fareBreakdown.details.slab_limit = limit
        /\ fareBreakdown.details.base_km_included = R(limit)
        /\ fareBreakdown.base_fare = package.slab[limit]
        /\ fareBreakdown.details.extra_km
             = Num(IF Val(args.facts.actualDistanceKm) > limit * Scale
                   THEN Val(args.facts.actualDistanceKm) - limit * Scale ELSE 0)
        /\ fareBreakdown.driver_allowance = Num(0)

\* a same-day round trip of 55 km priced by the 60 km tier with no extra km
C10_Witness ==
  /\ HasFare
  /\ ride.booking_type = "outstation"
  /\ ride.trip_type # "one_way"
  /\ args.facts.actualDistanceKm = R(55)
  /\ fareBreakdown.details.slab_limit = 60
  /\ fareBreakdown.details.extra_km = Num(0)
  /\ fareBreakdown.details.days_calculated = 1

\* the active rows of a table for the vehicle type of the ride, and the
\* newest rows of a set
ActiveFor(table) ==
  {r \in table : r.is_active /\ r.vehicle_type = ride.vehicle_type}

Newest(rows) == {r \in rows : ~\E q \in rows : q.created_at > r.created_at}

RegularCandidates == {r \in ActiveFor(fare_matrix) : r.booking_type = "regular"}
SlabCandidates == {r \in ActiveFor(outstation_packages) : r.use_slab_system}

\* an Outstation round trip that has been priced, or has failed to be, and
\* that qualifies for the slab method: one day, at most 150 km
SlabQualified ==
  /\ ride.booking_type = "outstation"
  /\ ride.trip_type # "one_way"
  /\ endTime # 0
  /\ NumberOfDays(ride.scheduled_time, endTime) = 1
  /\ Val(args.facts.actualDistanceKm) <= 150 * Scale

IsPerKmFare ==
  /\ HasFare
  /\ fareBreakdown.booking_type = "outstation"
  /\ fareBreakdown.details.direction # "one_way"
  /\ fareBreakdown.details.slab_limit = 0
  /\ fareBreakdown.details.km_allowance # Undef

\* C11: a round trip that qualifies for the slab method while no active slab
\* package exists, or while the slab lookup fails, is priced per km; it fails
\* with a configuration-not-found error only when the outstation
\* configuration is missing too
C11_SlabFallsBackToPerKm ==
  (SlabQualified /\ (SlabCandidates = {} \/ slabError)) =>
    /\ OutstationFareRows(ride.vehicle_type) # {} =>
         /\ IsPerKmFare
         /\ fareBreakdown.details.daily_km_limit = OutstationConfig.daily_km_limit
         /\ ret.error \in {"", "Failed to store trip completion"}
    /\ OutstationFareRows(ride.vehicle_type) = {} =>
         /\ ~HasFare
         /\ ret = Failure("Outstation fare configuration not found")

\* a slab-qualified round trip priced per km while the only stored slab
\* package is not active
C11_Witness ==
  /\ SlabQualified
  /\ outstation_packages # {}
  /\ \A r \in outstation_packages : ~r.is_active
  /\ ~slabError
  /\ IsPerKmFare
  /\ pc = "done"
  /\ ret.success

\* C12: an Outstation round trip priced per km has allowance = daily_km_limit
\* * days and driver_allowance = driver_allowance_per_day * days; up to the
\* allowance the distance fare is daily_km_limit * days * perKmRate and
\* within_allowance is true, beyond it the distance fare is distance *
\* perKmRate and within_allowance is false, with nothing billed as extra km
C12_PerKmRoundTrip ==
  IsPerKmFare =>
    LET days == fareBreakdown.details.days_calculated
        allowance == Val(OutstationConfig.daily_km_limit) * days
        rate == Val(OutstationConfig.per_km_rate)
        distance == Val(args.facts.actualDistanceKm)
    IN /\ days = NumberOfDays(ride.scheduled_time, endTime)
       /\ fareBreakdown.details.km_allowance = Num(allowance)
       /\ fareBreakdown.driver_allowance
            = Num(Val(OutstationConfig.driver_allowance_per_day) * days)
       /\ fareBreakdown.extra_km_charges = Num(0)
       /\ IF distance <= allowance
          THEN /\ fareBreakdown.distance_fare = Num((allowance * rate) \div Scale)
               /\ fareBreakdown.details.within_allowance = "true"
          ELSE /\ fareBreakdown.distance_fare = Num((distance * rate) \div Scale)
               /\ fareBreakdown.details.within_allowance = "false"

\* a round trip of several days priced per km beyond its allowance
C12_Witness ==
  /\ IsPerKmFare
  /\ fareBreakdown.details.days_calculated > 1
  /\ Val(args.facts.actualDistanceKm) > Val(fareBreakdown.details.km_allowance)
  /\ fareBreakdown.details.within_allowance = "false"

IsOutstationFare == HasFare /\ fareBreakdown.booking_type = "outstation"

\* the hours between the scheduled start of the ride and the clock reading
ElapsedHours ==
  IF ride.scheduled_time = <<>> THEN 0
  ELSE IF endTime >= ride.scheduled_time[1]
       THEN endTime - ride.scheduled_time[1]
       ELSE ride.scheduled_time[1] - endTime

\* C13: the number of days of an Outstation fare is the least whole number of
\* days, and at least 1, that holds the time between the scheduled start and
\* now, whichever comes first; it is 1 up to 24 hours and 1 without a
\* scheduled time
C13_NumberOfDays ==
  IsOutstationFare =>
    LET days == fareBreakdown.details.days_calculated
    IN /\ days \in Nat
       /\ days >= 1
       /\ days * 24 >= ElapsedHours
       /\ days > 1 => (days - 1) * 24 < ElapsedHours
       /\ ElapsedHours <= 24 => days = 1
       /\ ride.scheduled_time = <<>> => days = 1

\* a fare of a ride scheduled 25 hours after now, counted as 2 days
C13_Witness ==
  /\ IsOutstationFare
  /\ ride.scheduled_time # <<>>
  /\ ride.scheduled_time[1] = endTime + 25
  /\ fareBreakdown.details.days_calculated = 2

IsAirportFare == HasFare /\ fareBreakdown.booking_type = "airport"

\* the row of airport_fares an Airport fare was computed from
AirportConfig == CHOOSE r \in AirportFareRows(ride.vehicle_type) : TRUE

\* C14: an Airport fare charges the toward-airport flat fare when the pickup
\* is closer to the city center than the drop and the away-from-airport flat
\* fare when the drop is closer; base_fare is that flat fare, platform fee and
\* both GST items are 0 and total_fare = round(flat fare)
C14_AirportFare ==
  IsAirportFare =>
    LET pickupToCenter == KmBetween(args.facts.pickupLat, HOSUR_BUS_STAND)
        dropToCenter == KmBetween(args.facts.dropLat, HOSUR_BUS_STAND)
    IN /\ pickupToCenter < dropToCenter
            => fareBreakdown.base_fare = AirportConfig.hosur_to_airport_fare
       /\ dropToCenter < pickupToCenter
            => fareBreakdown.base_fare = AirportConfig.airport_to_hosur_fare
       /\ fareBreakdown.platform_fee = Num(0)
       /\ fareBreakdown.gst_on_charges = Num(0)
       /\ fareBreakdown.gst_on_platform_fee = Num(0)
       /\ fareBreakdown.total_fare = Num(Rounded(Val(fareBreakdown.base_fare)))

\* a ride from the city center to the airport at a flat fare of 850.5,
\* charged 851
C14_Witness ==
  /\ IsAirportFare
  /\ args.facts.pickupLat = HOSUR_BUS_STAND
  /\ args.facts.dropLat = HOSUR_BUS_STAND + 40
  /\ fareBreakdown.base_fare = Num(850 * Scale + Scale \div 2)
  /\ fareBreakdown.details.direction = "Hosur to Airport"
  /\ fareBreakdown.total_fare = R(851)

\* the km, in units of 1/Scale, between the points i - 1 and i of a history
Hop(h, i) ==
  IF h[i].latitude.v >= h[i - 1].latitude.v
  THEN h[i].latitude.v - h[i - 1].latitude.v
  ELSE h[i - 1].latitude.v - h[i].latitude.v

\* the sum of the hops of h whose index is in S
RECURSIVE SumHops(_, _)
SumHops(h, S) ==
  IF S = {} THEN 0
  ELSE LET i == CHOOSE j \in S : TRUE IN Hop(h, i) + SumHops(h, S \ {i})

C16_PointsUsed ==
  /\ (locationHistory.fetched /\ ~locationHistory.error) =>
       /\ tripDistance.returned
       /\ ~tripDistance.threw
  /\ tripDistance.returned =>
       IF Len(locationHistory.data) < 2
       THEN /\ tripDistance.distanceKm = Num(0)
            /\ tripDistance.pointsUsed = 0
       ELSE tripDistance.pointsUsed = Len(locationHistory.data)

\* one stored point: distance 0 from 0 points
C16_Witness ==
  /\ tripDistance.returned
  /\ Len(locationHistory.data) = 1
  /\ tripDistance.pointsUsed = 0

\* the fare has been calculated, or has failed to be
Decided == pc \in {"store", "update", "done"} /\ ret.error # "Ride not found"

IsSlabFare == IsOutstationFare /\ fareBreakdown.details.slab_limit # 0

\* C17: every lookup prices from the newest active row of its key (fare
\* matrix by booking type and vehicle type; outstation fares, slab package
\* and airport fares by vehicle type); with no active row of the key the
\* Regular, Outstation one-way and per-km, and Airport computations fail with
\* a configuration-not-found error
C17_FreshestActiveRow ==
  /\ IsRegularFare =>
       \A r \in Newest(RegularCandidates) :
         /\ (r.base_fare.k = "num" /\ r.base_fare.v # 0)
              => fareBreakdown.base_fare = r.base_fare
         /\ (r.per_km_rate.k = "num" /\ r.per_km_rate.v # 0)
              => fareBreakdown.details.per_km_rate = r.per_km_rate
  /\ (IsOneWayFare \/ IsPerKmFare) =>
       \A r \in Newest(ActiveFor(outstation_fares)) :
         /\ fareBreakdown.base_fare = r.base_fare
         /\ fareBreakdown.details.per_km_rate = r.per_km_rate
  /\ IsSlabFare =>
       \A r \in Newest(SlabCandidates) :
         /\ fareBreakdown.base_fare = r.slab[fareBreakdown.details.slab_limit]
         /\ fareBreakdown.details.per_km_rate = r.extra_km_rate
  /\ IsAirportFare =>
       \A r \in Newest(ActiveFor(airport_fares)) :
         fareBreakdown.base_fare
           \in {r.hosur_to_airport_fare, r.airport_to_hosur_fare}
  /\ HasFare =>
       CASE fareBreakdown.booking_type = "regular" -> RegularCandidates # {}
         [] IsSlabFare -> SlabCandidates # {}
         [] fareBreakdown.booking_type = "outstation" /\ ~IsSlabFare ->
              ActiveFor(outstation_fares) # {}
         [] fareBreakdown.booking_type = "airport" ->
              ActiveFor(airport_fares) # {}
         [] OTHER -> TRUE
  /\ (Decided /\ ~HasFare) =>
       CASE ride.booking_type = "regular" ->
              /\ RegularCandidates = {}
              /\ ret = Failure("Fare configuration not found for this vehicle type")
         [] ride.booking_type = "outstation" ->
              /\ ActiveFor(outstation_fares) = {}
              /\ ret = Failure("Outstation fare configuration not found")
         [] ride.booking_type = "airport" ->
              /\ ActiveFor(airport_fares) = {}
              /\ ret = Failure("Airport fare configuration not found")
         [] OTHER -> TRUE

\* a Regular fare priced from the newer of two active rows while a still
\* newer row of the key is not active
C17_Witness ==
  /\ IsRegularFare
  /\ \E a, b \in RegularCandidates, c \in fare_matrix :
       /\ c.booking_type = "regular"
       /\ c.vehicle_type = ride.vehicle_type
       /\ ~c.is_active
       /\ a.created_at < b.created_at
       /\ b.created_at < c.created_at
       /\ fareBreakdown.base_fare = b.base_fare
       /\ fareBreakdown.base_fare # a.base_fare

OutstationFeeCandidates ==
  {r \in ActiveFor(fare_matrix) : r.booking_type = "outstation"}

\* C18: the platform fee of every Outstation fare is that of the newest
\* active fare-matrix row for (outstation, vehicle type), also when several
\* such rows exist, and is 10 only when no such row exists
C18_OutstationPlatformFee ==
  IsOutstationFare =>
    /\ \A r \in Newest(OutstationFeeCandidates) :
         r.platform_fee.k = "num" => fareBreakdown.platform_fee = r.platform_fee
    /\ OutstationFeeCandidates = {} => fareBreakdown.platform_fee = R(10)

RentalCandidates ==
  {r \in ActiveFor(rental_fares) : r.duration_hours = SelectedHours}

\* C19: a Rental fare is priced with an active package of the key (vehicle
\* type, hours), and with one whose is_popular flag is set when any of them
\* has it set; with no active package of the key the computation fails with a
\* configuration-not-found error
C19_RentalPackageChoice ==
  /\ IsRentalFare =>
       \E r \in RentalCandidates :
         /\ fareBreakdown.details.package_name = r.package_name
         /\ fareBreakdown.base_fare = r.base_fare
         /\ (\E q \in RentalCandidates : q.is_popular) => r.is_popular
  /\ (Decided /\ ride.booking_type = "rental" /\ RentalCandidates = {}) =>
       /\ ~HasFare
       /\ ret = Failure("Rental fare configuration not found")

\* a Rental fare priced with the popular one of several active packages of
\* its key
C19_Witness ==
  /\ IsRentalFare
  /\ \E r, q \in RentalCandidates :
       /\ r.is_popular
       /\ ~q.is_popular
       /\ fareBreakdown.details.package_name = r.package_name

\* the configuration row the algorithm of the ride needs is missing
RequiredRowMissing ==
  CASE ride.booking_type = "regular" -> RegularCandidates = {}
    [] ride.booking_type = "rental" -> RentalCandidates = {}
    [] ride.booking_type = "airport" -> ActiveFor(airport_fares) = {}
    [] ride.booking_type = "outstation" ->
         /\ ActiveFor(outstation_fares) = {}
         /\ ~(/\ SlabQualified
              /\ SlabCandidates # {}
              /\ ~slabError)
    [] OTHER -> FALSE

ConfigurationErrors ==
  {"Fare configuration not found for this vehicle type",
   "Rental fare configuration not found",
   "Outstation fare configuration not found",
   "Airport fare configuration not found"}

\* C20: when a required configuration row is missing the call ends at once
\* with an unsuccessful result that carries the error; nothing is inserted
\* into trip_completions, the ride is not updated, and nothing is tried again
C20_ConfigurationMissing ==
  /\ (Decided /\ RequiredRowMissing) =>
       /\ pc = "done"
       /\ ~ret.success
       /\ ret.error \in ConfigurationErrors
       /\ ret.fareBreakdown = NoFare
       /\ trip_completions = <<>>
       /\ rides[args.rideId] = ride
       /\ ride.fare_amount = Null
       /\ ride.distance_km = Null
       /\ ride.duration_minutes = Null
       /\ ~ENABLED Next
  /\ ret.error \in ConfigurationErrors => RequiredRowMissing

\* a Regular ride of a vehicle type with no fare matrix row: the call has
\* failed and nothing is stored
C20_Witness ==
  /\ pc = "done"
  /\ ride.booking_type = "regular"
  /\ fare_matrix # {}
  /\ RequiredRowMissing
  /\ ret = Failure("Fare configuration not found for this vehicle type")
  /\ trip_completions = <<>>

BookingTypes == {"regular", "rental", "outstation", "airport"}

\* C21: a ride of a booking type other than regular, rental, outstation and
\* airport ends the call at once with an invalid-booking-type error: no
\* algorithm has run, no rate table has been read, nothing is inserted into
\* trip_completions and the ride is not updated
C21_InvalidBookingType ==
  /\ (Decided /\ ride.booking_type \notin BookingTypes) =>
       /\ pc = "done"
       /\ ret = Failure("Invalid booking type")
       /\ ~HasFare
       /\ queried = {"rides", "zones"}
       /\ trip_completions = <<>>
       /\ rides[args.rideId] = ride
       /\ ~ENABLED Next
  /\ ret.error = "Invalid booking type" => ride.booking_type \notin BookingTypes

\* a call for a ride of booking type "shared" that has ended
C21_Witness ==
  /\ pc = "done"
  /\ ride.booking_type = "shared"
  /\ ret.error = "Invalid booking type"
  /\ fare_matrix # {}

RegularRowWithFallbacks ==
  [RegularRow EXCEPT
     !.platform_fee = IF @.k \in {"undef", "text"} THEN R(10) ELSE @,
     !.surge_multiplier = IF @.k \in {"undef", "text"} THEN R(1) ELSE @]

\* C23: a Regular breakdown computed with a substituted fallback differs from
\* the breakdown of a configuration that holds the fallback value itself
C23_FallbackObservable ==
  (IsRegularFare /\ RegularRowWithFallbacks # RegularRow) =>
    fareBreakdown #
      calculateRegularFare(ride.vehicle_type, args.facts.actualDistanceKm,
                           args.facts.actualDurationMinutes, args.facts.dropLat,
                           zones, {RegularRowWithFallbacks}).fare

\* C28: when the call has returned success, a completion holding the returned
\* breakdown is stored for the ride and the ride carries the total, the
\* distance and the duration; the ride is updated only once the completion is
\* stored, and a failed insert leaves the ride as it was and is reported
C28_SuccessIsStored ==
  /\ ret.success =>
       /\ \E i \in DOMAIN trip_completions :
            /\ trip_completions[i].ride_id = args.rideId
            /\ trip_completions[i].fare_breakdown = ret.fareBreakdown
       /\ rides[args.rideId].fare_amount = ret.fareBreakdown.total_fare
       /\ rides[args.rideId].distance_km = args.facts.actualDistanceKm
       /\ rides[args.rideId].duration_minutes = args.facts.actualDurationMinutes
  /\ (pc # "idle" /\ args.rideId \in DOMAIN rides /\ rides[args.rideId] # ride)
       => trip_completions # <<>>
  /\ ret.error = "Failed to store trip completion" =>
       ~ret.success /\ rides[args.rideId] = ride /\ trip_completions = <<>>

\* lines 1229-1247: the completion of a ride as .single() gives it: the row
\* when exactly one row has the ride id, and null otherwise
getTripCompletion(rideId) ==
  LET found == {i \in DOMAIN trip_completions :
                  trip_completions[i].ride_id = rideId}
  IN IF Cardinality(found) = 1
     THEN {trip_completions[i] : i \in found}
     ELSE {}

\* C29: no ride has more than one completion stored, and the completion of a
\* ride that has one stored is found by its ride id
C29_OneCompletionPerRide ==
  /\ \A i, j \in DOMAIN trip_completions :
       trip_completions[i].ride_id = trip_completions[j].ride_id => i = j
  /\ trip_completions # <<>> => getTripCompletion(args.rideId) # {}

\* C30: a fare of the slab method has no extra-km charge: the tier holds the
\* distance, extra_km and extra_km_charges are 0 and within_allowance is true
C30_SlabHasNoExtraKm ==
  IsSlabFare =>
    /\ Val(args.facts.actualDistanceKm) <= fareBreakdown.details.slab_limit * Scale
    /\ fareBreakdown.details.extra_km = Num(0)
    /\ fareBreakdown.extra_km_charges = Num(0)
    /\ fareBreakdown.details.within_allowance = "true"

\* a trip of 150 km priced by the largest tier
C30_Witness ==
  /\ IsSlabFare
  /\ args.facts.actualDistanceKm = R(150)
  /\ fareBreakdown.details.slab_limit = 150
  /\ fareBreakdown.extra_km_charges = Num(0)

\* a sequence of points that is non-decreasing in recorded_at
ByRecordedAt(points) ==
  \A i, j \in DOMAIN points :
    i < j => points[i].recorded_at <= points[j].recorded_at

\* C24: when the last call of the caller is a stop, the intervals of the trip
\* are all cleared in the end, unless a start is called before that
C24_IntervalsEventuallyCleared ==
  (lastCall = "stop") ~> (intervals = {} \/ lastCall = "start")

\* C25: the points kept in memory are non-decreasing in recorded_at, and so is
\* the sequence calculateTripDistance has read, whatever the order of inserts
C25_PointsInTimestampOrder ==
  /\ ByRecordedAt(locationPoints)
  /\ ByRecordedAt(locationHistory.data)

\* the inserts of two overlapping calls were done against the order of their
\* fixes, and the query gave the points by recorded_at
C25_Witness ==
  /\ ~ByRecordedAt(trip_location_history)
  /\ locationHistory.fetched
  /\ Len(locationHistory.data) = 2
  /\ locationHistory.data # trip_location_history

\* C26: at most one interval of the trip is live, and a live interval is the
\* one registered for the trip
C26_OneRegisteredInterval ==
  /\ Cardinality(intervals) <= 1
  /\ intervals \subseteq {trackingIntervals}

\* C27: when the last call was a stop, the trip is not tracked and no step adds
\* a point to the points in memory or to the table
C27_NothingAfterStop ==
  [][(lastCall = "stop" /\ lastCall' = "stop") =>
       /\ ~isTracking'
       /\ Len(locationPoints') <= Len(locationPoints)
       /\ Len(trip_location_history') <= Len(trip_location_history)]_vars

====
